---- MODULE Spec2Model ----
(***************************************************************************)
(* Rule-based Swedish/English sentiment scoring engine                     *)
(* (src/Neilanx/sentiment_analyzer.py, class SwedishSentimentAnalyzer).    *)
(*                                                                         *)
(* A text is a sequence of one-character strings; a token handed to the    *)
(* lexicon is the concatenation of its characters.  Weights are kept in    *)
(* tenths (1.0 = 10, 1.5 = 15); a score or confidence is an exact fraction *)
(* [num, den] in lowest terms.  A Python value handed to an operation is a *)
(* record [kind, chars, val]: kind "str" (chars), "none", or "int" (val),  *)
(* the last standing for any object without the str methods.               *)
(*                                                                         *)
(* The strings of the module are 7-bit.  The alphabet is ASCII and the     *)
(* letters å, ä, ö of the word lists, written with three signs that stand  *)
(* for nothing else here:                                                  *)
(*     }  for  å      {  for  ä      |  for  ö                             *)
(* so the list entry 'dålig' is "d}lig" and 'värd' is "v{rd".  Each sign   *)
(* is one character, is a letter (\w), is its own lower case and is        *)
(* outside the URL character class, as the letter it stands for.           *)
(***************************************************************************)
EXTENDS Integers, Sequences, FiniteSets, TLC

(***************************************************************************)
(* Bounds of the checked input space.                                      *)
(***************************************************************************)
MaxTokens == 4
MaxPolar == 6
MaxPieces == 3
MaxBatch == 2
MaxKeywordTokens == 3
MaxCalls == 3
MaxFiller == 9
MaxUsers == 2
MaxRequests == 2
MaxReports == 1
MaxPasted == 2
MaxLines == 101

(***************************************************************************)
(* Characters.                                                             *)
(***************************************************************************)
UpperChars ==
    <<"A", "B", "C", "D", "E", "F", "G", "H", "I", "J", "K", "L", "M", "N",
      "O", "P", "Q", "R", "S", "T", "U", "V", "W", "X", "Y", "Z">>

LowerChars ==
    <<"a", "b", "c", "d", "e", "f", "g", "h", "i", "j", "k", "l", "m", "n",
      "o", "p", "q", "r", "s", "t", "u", "v", "w", "x", "y", "z">>

\* å, ä, ö
SwedishLetters == {"}", "{", "|"}

Digits == {"0", "1", "2", "3", "4", "5", "6", "7", "8", "9"}

AsciiLetters ==
    {UpperChars[k] : k \in 1..26} \cup {LowerChars[k] : k \in 1..26}

Letters == AsciiLetters \cup SwedishLetters

\* \s of the re module, and the characters str.strip() and str.split() drop
IsSpace(c) == c \in {" ", "\t", "\n"}

\* \w of the re module on str patterns
IsWordChar(c) == c \in Letters \cup Digits \cup {"_"}

\* one character of the URL body:
\* [a-zA-Z]|[0-9]|[$-_@.&+]|[!*\\(\\),]  (the range $-_ is 0x24..0x5F)
IsUrlChar(c) ==
    c \in AsciiLetters \cup Digits
          \cup {"$", "%", "&", "'", "(", ")", "*", "+", ",", "-", ".", "/",
                ":", ";", "<", "=", ">", "?", "@", "[", "\\", "]", "^", "_",
                "!"}

\* str.lower() on one character
LowerChar(c) ==
    IF \E k \in 1..26 : UpperChars[k] = c
    THEN LowerChars[CHOOSE k \in 1..26 : UpperChars[k] = c]
    ELSE c

\* str.lower()
Lower(cs) == [k \in 1..Len(cs) |-> LowerChar(cs[k])]

\* the str made of the characters cs
RECURSIVE Str(_)
Str(cs) == IF cs = <<>> THEN "" ELSE Head(cs) \o Str(Tail(cs))

\* the longest prefix of cs whose characters all satisfy / all fail IsSpace
RECURSIVE SpaceRun(_)
SpaceRun(cs) ==
    IF cs = <<>> \/ ~IsSpace(Head(cs)) THEN 0 ELSE 1 + SpaceRun(Tail(cs))

RECURSIVE NonSpaceRun(_)
NonSpaceRun(cs) ==
    IF cs = <<>> \/ IsSpace(Head(cs)) THEN 0 ELSE 1 + NonSpaceRun(Tail(cs))

RECURSIVE UrlRun(_)
UrlRun(cs) ==
    IF cs = <<>> \/ ~IsUrlChar(Head(cs)) THEN 0 ELSE 1 + UrlRun(Tail(cs))

Drop(cs, n) == SubSeq(cs, n + 1, Len(cs))

Take(cs, n) == SubSeq(cs, 1, n)

StartsWith(cs, p) == Len(cs) >= Len(p) /\ Take(cs, Len(p)) = p

\* str.strip()
RECURSIVE RStrip(_)
RStrip(cs) ==
    IF cs = <<>> \/ ~IsSpace(cs[Len(cs)]) THEN cs
    ELSE RStrip(Take(cs, Len(cs) - 1))

Strip(cs) == RStrip(Drop(cs, SpaceRun(cs)))

\* re.sub(r'\s+', ' ', cs)
RECURSIVE CollapseWhitespace(_)
CollapseWhitespace(cs) ==
    IF cs = <<>> THEN <<>>
    ELSE IF IsSpace(Head(cs))
         THEN <<" ">> \o CollapseWhitespace(Drop(cs, SpaceRun(cs)))
         ELSE <<Head(cs)>> \o CollapseWhitespace(Tail(cs))

\* length of the match of  http[s]?://(...)+  at the start of cs, 0 if none
UrlMatchLen(cs) ==
    LET https == <<"h", "t", "t", "p", "s", ":", "/", "/">>
        http  == <<"h", "t", "t", "p", ":", "/", "/">>
    IN IF StartsWith(cs, https) /\ UrlRun(Drop(cs, 8)) >= 1
       THEN 8 + UrlRun(Drop(cs, 8))
       ELSE IF StartsWith(cs, http) /\ UrlRun(Drop(cs, 7)) >= 1
            THEN 7 + UrlRun(Drop(cs, 7))
            ELSE 0

\* re.sub(url pattern, '', cs)
RECURSIVE RemoveUrls(_)
RemoveUrls(cs) ==
    IF cs = <<>> THEN <<>>
    ELSE IF UrlMatchLen(cs) > 0
         THEN RemoveUrls(Drop(cs, UrlMatchLen(cs)))
         ELSE <<Head(cs)>> \o RemoveUrls(Tail(cs))

\* \S+@\S+ matches inside the run of non-space characters r: an '@' with a
\* character before it and a character after it; the match then starts at
\* the head of the run and, being greedy, ends at its end
EmailMatches(r) == \E k \in 2..(Len(r) - 1) : r[k] = "@"

\* re.sub(r'\S+@\S+', '', cs)
RECURSIVE RemoveEmails(_)
RemoveEmails(cs) ==
    IF cs = <<>> THEN <<>>
    ELSE IF IsSpace(Head(cs))
         THEN <<Head(cs)>> \o RemoveEmails(Tail(cs))
         ELSE LET n == NonSpaceRun(cs)
              IN IF EmailMatches(Take(cs, n))
                 THEN RemoveEmails(Drop(cs, n))
                 ELSE Take(cs, n) \o RemoveEmails(Drop(cs, n))

\* str.split(): the runs of non-space characters, each as a character sequence
RECURSIVE SplitChars(_)
SplitChars(cs) ==
    IF cs = <<>> THEN <<>>
    ELSE IF IsSpace(Head(cs))
         THEN SplitChars(Drop(cs, SpaceRun(cs)))
         ELSE <<Take(cs, NonSpaceRun(cs))>>
              \o SplitChars(Drop(cs, NonSpaceRun(cs)))

\* str.split() as a list of str
Split(cs) == LET ts == SplitChars(cs) IN [k \in 1..Len(ts) |-> Str(ts[k])]

(***************************************************************************)
(* Python values.                                                          *)
(***************************************************************************)
StrValue(cs) == [kind |-> "str", chars |-> cs, val |-> 0]

NoneValue == [kind |-> "none", chars |-> <<>>, val |-> 0]

IntValue(n) == [kind |-> "int", chars |-> <<>>, val |-> n]

\* bool(v), as tested by `if not text`
Truthy(v) ==
    CASE v.kind = "str" -> v.chars # <<>>
      [] v.kind = "int" -> v.val # 0
      [] OTHER -> FALSE

\* v has the str methods strip() and lower(); any other object raises
\* AttributeError when they are called
HasStrMethods(v) == v.kind = "str"

(***************************************************************************)
(* The lexicon: the word lists _initialize_model builds, and the attributes *)
(* of the analyzer it assigns them to.                                     *)
(***************************************************************************)
PositiveWordList ==
    {"bra", "fantastisk", "utm{rkt", "perfekt", "underbar", "toppenklass",
     "rekommenderar", "n|jd", "glad", "lysande", "grym", "suver{n",
     "str}lande", "magnifik", "outstanding", "f|rtjusande", "h{rlig",
     "fenomenal", "otrolig", "enast}ende", "felfri", "imponerande",
     "tillfredsst{llande", "prisv{rd", "effektiv", "snabb", "hj{lpsam",
     "v{nlig", "professionell", "kvalitet", "v{rd", "rekommenderar starkt",
     "{lskar", "fantastisk service", "b{sta", "toppen", "superbra", "k{mpa",
     "tacksam", "imponerad", "|vertr{ffade f|rv{ntningar", "excellent",
     "amazing", "great", "good", "perfect", "wonderful", "love", "awesome",
     "best", "brilliant", "fantastic", "superb", "marvelous", "exceptional",
     "impressive", "satisfying", "pleased", "delighted", "thrilled", "happy",
     "satisfied", "recommend", "worth", "value", "quality", "fast",
     "friendly", "helpful", "professional", "efficient",
     "exceeded expectations"}

NegativeWordList ==
    {"d}lig", "hemsk", "fruktansv{rd", "besviken", "s{mst", "trasig",
     "problem", "fel", "kass", "usel", "ruskig", "otillfredsst{llande",
     "besvikelse", "irriterande", "f|rf{rlig", "katastrofal", "v{rdel|s",
     "op}litlig", "l}ngsam", "dyr", "|verpris", "sv}rt", "komplicerat",
     "otrevlig", "oprofessionell", "slarvig", "bristf{llig", "misslyckad",
     "}nger", "sl|seri", "inte v{rt", "rekommenderar inte", "undvik",
     "bedr{geri", "bluff", "skandal", "f|rsenad", "f|rlorad", "skadad",
     "bad", "terrible", "awful", "worst", "horrible", "hate", "disappointed",
     "broken", "failed", "poor", "wrong", "disgusting", "useless", "waste",
     "scam", "fraud", "delayed", "damaged", "unreliable", "slow",
     "expensive", "overpriced", "complicated", "unprofessional", "rude",
     "regret", "avoid", "not recommend"}

NegationWordList ==
    {"inte", "icke", "ej", "aldrig", "ingenting", "inget", "ingen", "not",
     "no", "never", "nothing", "none", "neither", "nor"}

\* IntensifierTable with the multiplier 1.0 for 'quite'
IntensifierTableWithUnit ==
    ("mycket" :> 15) @@ ("v{ldigt" :> 15) @@ ("extremt" :> 20)
    @@ ("otroligt" :> 20) @@ ("helt" :> 13) @@ ("verkligen" :> 14)
    @@ ("absolut" :> 18) @@ ("definitivt" :> 14) @@ ("very" :> 15)
    @@ ("extremely" :> 20) @@ ("absolutely" :> 18) @@ ("really" :> 14)
    @@ ("incredibly" :> 20) @@ ("totally" :> 16) @@ ("completely" :> 17)
    @@ ("quite" :> 10)

\* IntensifierTable with the multiplier 0.0 for 'mycket'
IntensifierTableWithZero ==
    ("mycket" :> 0) @@ ("v{ldigt" :> 15) @@ ("extremt" :> 20)
    @@ ("otroligt" :> 20) @@ ("helt" :> 13) @@ ("verkligen" :> 14)
    @@ ("absolut" :> 18) @@ ("definitivt" :> 14) @@ ("very" :> 15)
    @@ ("extremely" :> 20) @@ ("absolutely" :> 18) @@ ("really" :> 14)
    @@ ("incredibly" :> 20) @@ ("totally" :> 16) @@ ("completely" :> 17)
    @@ ("quite" :> 12)

\* multipliers in tenths
IntensifierTable ==
    ("mycket" :> 15) @@ ("v{ldigt" :> 15) @@ ("extremt" :> 20)
    @@ ("otroligt" :> 20) @@ ("helt" :> 13) @@ ("verkligen" :> 14)
    @@ ("absolut" :> 18) @@ ("definitivt" :> 14) @@ ("very" :> 15)
    @@ ("extremely" :> 20) @@ ("absolutely" :> 18) @@ ("really" :> 14)
    @@ ("incredibly" :> 20) @@ ("totally" :> 16) @@ ("completely" :> 17)
    @@ ("quite" :> 12)

\* self.positive_words, self.negative_words, self.negation_words and
\* self.intensifiers
VARIABLES positive_words, negative_words, negation_words, intensifiers

lexicon == <<positive_words, negative_words, negation_words, intensifiers>>

\* the local stop_words of extract_keywords
stop_words ==
    {"och", "i", "att", "det", "som", "p}", "de", "av", "f|r", "till", "{r",
     "en", "den", "har", "inte", "var", "om", "med", "kan", "man", "s}",
     "fr}n", "ut", "n{r", "bara", "sina", "d{r", "nu", "|ver", "skulle",
     "d}", "hade", "upp", "mot", "ocks}", "{n", "mycket", "bra", "d}lig",
     "d}ligt", "b{ttre", "s{mre", "helt", "v{ldigt", "riktigt"}

(***************************************************************************)
(* Numbers: exact fractions in lowest terms, weights in tenths.            *)
(***************************************************************************)
RECURSIVE GCD(_, _)
GCD(a, b) == IF b = 0 THEN a ELSE GCD(b, a % b)

\* n / d, d > 0
Rat(n, d) ==
    IF n = 0 THEN [num |-> 0, den |-> 1]
    ELSE [num |-> n \div GCD(n, d), den |-> d \div GCD(n, d)]

RatLess(a, b) == a.num * b.den < b.num * a.den

RatLeq(a, b) == a.num * b.den <= b.num * a.den

RatMin(a, b) == IF RatLess(b, a) THEN b ELSE a

\* the weight 1.0
UnitWeight == 10

(***************************************************************************)
(* preprocess_text                                                         *)
(***************************************************************************)
\* preprocess_text raises AttributeError at text.strip() for a truthy value
\* that is no str
PreprocessRaises(v) == Truthy(v) /\ ~HasStrMethods(v)

\* preprocess_text(v), for a value on which it does not raise
preprocess_text(v) ==
    IF ~Truthy(v) THEN <<>>
    ELSE RemoveEmails(RemoveUrls(CollapseWhitespace(Strip(v.chars))))

(***************************************************************************)
(* analyze_sentiment: results                                              *)
(***************************************************************************)
EmptyScores ==
    [empty |-> TRUE, positive |-> 0, negative |-> 0, word_count |-> 0]

Scores(p, n, w) ==
    [empty |-> FALSE, positive |-> p, negative |-> n, word_count |-> w]

Result(s, sc, c, raw) ==
    [sentiment |-> s, score |-> sc, confidence |-> c, scores |-> raw]

\* the value of `result` before the operation returns
NoResult == Result("", Rat(0, 1), Rat(0, 1), EmptyScores)

\* `if not text: return ...`
EmptyInputResult == Result("neutral", Rat(1, 2), Rat(0, 1), EmptyScores)

\* `if len(clean_text) < 3: return ...`
TooShortResult == Result("neutral", Rat(1, 2), Rat(1, 10), EmptyScores)

\* `if word_count == 0: return ...`
NoMatchResult == Result("neutral", Rat(1, 2), Rat(2, 10), Scores(0, 0, 0))

\* ExceptHandler re-raising instead of returning
ExceptHandlerReraise ==
    [pc |-> "raised",
     result |-> Result("", Rat(0, 1), Rat(0, 1), EmptyScores)]

\* `except Exception as e: ... return ...`
\* pc is where the handler leaves the operation
ExceptHandler ==
    [pc |-> "done",
     result |-> Result("neutral", Rat(1, 2), Rat(0, 1), EmptyScores)]

(***************************************************************************)
(* analyze_sentiment: the scan                                             *)
(***************************************************************************)
\* words is 1-based here: words[i-1] of the source is words[i - 1] for i > 1
\* Negated looking one token back only
NegatedOnlyPrevious(words, i) ==
    IF i > 1 /\ words[i - 1] \in negation_words THEN TRUE
    ELSE FALSE

Negated(words, i) ==
    IF i > 1 /\ words[i - 1] \in negation_words THEN TRUE
    ELSE IF i > 2 /\ words[i - 2] \in negation_words THEN TRUE
    ELSE FALSE

\* Intensity multiplying the multipliers of both preceding intensifiers
IntensityProduct(words, i) ==
    LET one == IF i > 1 /\ words[i - 1] \in DOMAIN intensifiers
               THEN intensifiers[words[i - 1]]
               ELSE UnitWeight
        two == IF i > 2 /\ words[i - 2] \in DOMAIN intensifiers
               THEN intensifiers[words[i - 2]]
               ELSE UnitWeight
    IN (one * two) \div UnitWeight

\* Intensity looking one token back only
IntensityOnlyPrevious(words, i) ==
    IF i > 1 /\ words[i - 1] \in DOMAIN intensifiers
    THEN intensifiers[words[i - 1]]
    ELSE UnitWeight

Intensity(words, i) ==
    IF i > 1 /\ words[i - 1] \in DOMAIN intensifiers
    THEN intensifiers[words[i - 1]]
    ELSE IF i > 2 /\ words[i - 2] \in DOMAIN intensifiers
         THEN intensifiers[words[i - 2]]
         ELSE UnitWeight

\* ScanToken with the un-negated negative branch adding to positive_score
ScanTokenCopyPaste(words, i, acc) ==
    LET negated == Negated(words, i)
        score == (UnitWeight * Intensity(words, i)) \div UnitWeight
    IN IF words[i] \in positive_words
       THEN IF negated
            THEN [acc EXCEPT !.negative_score = @ + score,
                             !.word_count = @ + 1]
            ELSE [acc EXCEPT !.positive_score = @ + score,
                             !.word_count = @ + 1]
       ELSE IF words[i] \in negative_words
            THEN [acc EXCEPT !.positive_score = @ + score,
                             !.word_count = @ + 1]
            ELSE acc

\* ScanToken with a negation word counted as a negative word
ScanTokenCountsNegations(words, i, acc) ==
    LET negated == Negated(words, i)
        score == (UnitWeight * Intensity(words, i)) \div UnitWeight
    IN IF words[i] \in positive_words
       THEN IF negated
            THEN [acc EXCEPT !.negative_score = @ + score,
                             !.word_count = @ + 1]
            ELSE [acc EXCEPT !.positive_score = @ + score,
                             !.word_count = @ + 1]
       ELSE IF words[i] \in negative_words \cup negation_words
            THEN IF negated
                 THEN [acc EXCEPT !.positive_score = @ + score,
                                  !.word_count = @ + 1]
                 ELSE [acc EXCEPT !.negative_score = @ + score,
                                  !.word_count = @ + 1]
            ELSE acc

\* ScanToken with word_count incremented for every token
ScanTokenCountsEveryToken(words, i, acc) ==
    LET word == words[i]
        negated == Negated(words, i)
        score == (UnitWeight * Intensity(words, i)) \div UnitWeight
    IN IF word \in positive_words
       THEN IF negated
            THEN [acc EXCEPT !.negative_score = @ + score,
                             !.word_count = @ + 1]
            ELSE [acc EXCEPT !.positive_score = @ + score,
                             !.word_count = @ + 1]
       ELSE IF word \in negative_words
            THEN IF negated
                 THEN [acc EXCEPT !.positive_score = @ + score,
                                  !.word_count = @ + 1]
                 ELSE [acc EXCEPT !.negative_score = @ + score,
                                  !.word_count = @ + 1]
            ELSE [acc EXCEPT !.word_count = @ + 1]

\* one iteration of `for i, word in enumerate(words)` on the totals acc
ScanToken(words, i, acc) ==
    LET word == words[i]
        negated == Negated(words, i)
        score == (UnitWeight * Intensity(words, i)) \div UnitWeight
    IN IF word \in positive_words
       THEN IF negated
            THEN [acc EXCEPT !.negative_score = @ + score,
                             !.word_count = @ + 1]
            ELSE [acc EXCEPT !.positive_score = @ + score,
                             !.word_count = @ + 1]
       ELSE IF word \in negative_words
            THEN IF negated
                 THEN [acc EXCEPT !.positive_score = @ + score,
                                  !.word_count = @ + 1]
                 ELSE [acc EXCEPT !.negative_score = @ + score,
                                  !.word_count = @ + 1]
            ELSE acc

ZeroTotals == [positive_score |-> 0, negative_score |-> 0, word_count |-> 0]

\* the totals after iterations i .. Len(words)
RECURSIVE Scan(_, _, _)
Scan(words, i, acc) ==
    IF i > Len(words) THEN acc
    ELSE Scan(words, i + 1, ScanToken(words, i, acc))

\* Classify with the two thresholds taken inclusively
ClassifyInclusive(sentiment_score) ==
    IF RatLeq(Rat(6, 10), sentiment_score) THEN "positive"
    ELSE IF RatLeq(sentiment_score, Rat(4, 10)) THEN "negative"
    ELSE "neutral"

\* `if sentiment_score > 0.6 ... elif sentiment_score < 0.4 ... else`
Classify(sentiment_score) ==
    IF RatLess(Rat(6, 10), sentiment_score) THEN "positive"
    ELSE IF RatLess(sentiment_score, Rat(4, 10)) THEN "negative"
    ELSE "neutral"

\* Confidence with the operands of the division swapped
ConfidenceSwapped(word_count, ntokens) == Rat(ntokens, word_count)

\* Confidence with one more than word_count in the numerator
ConfidenceOffByOne(word_count, ntokens) ==
    RatMin(Rat(word_count + 1, ntokens), Rat(1, 1))

\* the confidence of a scored text
Confidence(word_count, ntokens) ==
    RatMin(Rat(word_count, ntokens), Rat(1, 1))

\* the statements after the loop
FinalSentiment(words, acc) ==
    IF acc.word_count = 0 THEN NoMatchResult
    ELSE LET total_score == acc.positive_score + acc.negative_score
             sentiment_score ==
                 IF total_score = 0 THEN Rat(1, 2)
                 ELSE Rat(acc.positive_score, total_score)
             confidence ==
                 IF total_score = 0 THEN Rat(1, 10)
                 ELSE Confidence(acc.word_count, Len(words))
         IN Result(Classify(sentiment_score), sentiment_score, confidence,
                   Scores(acc.positive_score, acc.negative_score,
                          acc.word_count))

\* analyze_sentiment(v) as a function of its argument
AnalyzeSentiment(v) ==
    IF ~Truthy(v) THEN EmptyInputResult
    ELSE IF PreprocessRaises(v) THEN ExceptHandler.result
    ELSE LET clean == Lower(preprocess_text(v))
         IN IF Len(clean) < 3 THEN TooShortResult
            ELSE FinalSentiment(Split(clean), Scan(Split(clean), 1, ZeroTotals))

(***************************************************************************)
(* extract_keywords                                                        *)
(***************************************************************************)
\* extract_keywords raises AttributeError at text.lower() for a truthy value
\* that is no str
ExtractRaises(v) == Truthy(v) /\ ~HasStrMethods(v)

\* re.sub(r'[^\w\s]', ' ', cs)
PunctuationToSpace(cs) ==
    [k \in 1..Len(cs) |->
        IF IsWordChar(cs[k]) \/ IsSpace(cs[k]) THEN cs[k] ELSE " "]

\* FilterKeywords without the test for stop words
RECURSIVE FilterKeywordsKeepsStopWords(_)
FilterKeywordsKeepsStopWords(ts) ==
    IF ts = <<>> THEN <<>>
    ELSE IF Len(Head(ts)) > 3
         THEN <<Str(Head(ts))>> \o FilterKeywordsKeepsStopWords(Tail(ts))
         ELSE FilterKeywordsKeepsStopWords(Tail(ts))

\* [word for word in words if len(word) > 3 and word not in stop_words]
RECURSIVE FilterKeywords(_)
FilterKeywords(ts) ==
    IF ts = <<>> THEN <<>>
    ELSE IF Len(Head(ts)) > 3 /\ Str(Head(ts)) \notin stop_words
         THEN <<Str(Head(ts))>> \o FilterKeywords(Tail(ts))
         ELSE FilterKeywords(Tail(ts))

\* the keys of word_freq in insertion order: first occurrences
RECURSIVE FirstOccurrences(_, _)
FirstOccurrences(ws, seen) ==
    IF ws = <<>> THEN <<>>
    ELSE IF Head(ws) \in seen THEN FirstOccurrences(Tail(ws), seen)
         ELSE <<Head(ws)>> \o FirstOccurrences(Tail(ws), seen \cup {Head(ws)})

\* word_freq[w]
Frequency(ws, w) == Cardinality({k \in 1..Len(ws) : ws[k] = w})

\* InsertByFrequency putting the item in front of the items of the same
\* frequency: a sort that is not stable
RECURSIVE InsertByFrequencyUnstable(_, _, _)
InsertByFrequencyUnstable(sorted, w, ws) ==
    IF sorted = <<>> THEN <<w>>
    ELSE IF Frequency(ws, Head(sorted)) > Frequency(ws, w)
         THEN <<Head(sorted)>>
              \o InsertByFrequencyUnstable(Tail(sorted), w, ws)
         ELSE <<w>> \o sorted

\* item put into the list sorted by descending frequency, behind the items
\* whose frequency is not lower (sorted() is stable)
RECURSIVE InsertByFrequency(_, _, _)
InsertByFrequency(sorted, w, ws) ==
    IF sorted = <<>> THEN <<w>>
    ELSE IF Frequency(ws, Head(sorted)) >= Frequency(ws, w)
         THEN <<Head(sorted)>> \o InsertByFrequency(Tail(sorted), w, ws)
         ELSE <<w>> \o sorted

\* sorted(word_freq.items(), key=lambda x: x[1], reverse=True), keys only
RECURSIVE SortByFrequency(_, _, _)
SortByFrequency(keys, sorted, ws) ==
    IF keys = <<>> THEN sorted
    ELSE SortByFrequency(Tail(keys), InsertByFrequency(sorted, Head(keys), ws),
                         ws)

\* SlicePrefix keeping one entry too many
SlicePrefixOffByOne(seq, m) ==
    IF m + 1 < Len(seq) THEN SubSeq(seq, 1, m + 1) ELSE seq

\* seq[:m]
SlicePrefix(seq, m) ==
    IF m >= 0 THEN Take(seq, IF m < Len(seq) THEN m ELSE Len(seq))
    ELSE Take(seq, IF Len(seq) + m > 0 THEN Len(seq) + m ELSE 0)

\* extract_keywords(v, max_keywords), for a value on which it does not raise
extract_keywords(v, max_keywords) ==
    IF ~Truthy(v) THEN <<>>
    ELSE LET keywords ==
                 FilterKeywords(SplitChars(PunctuationToSpace(Lower(v.chars))))
         IN SlicePrefix(
                SortByFrequency(FirstOccurrences(keywords, {}), <<>>, keywords),
                max_keywords)

\* the default of the parameter max_keywords
DefaultMaxKeywords == 10

\* result['keywords'] = ...
WithKeywords(r, kws) ==
    [sentiment |-> r.sentiment, score |-> r.score,
     confidence |-> r.confidence, scores |-> r.scores, keywords |-> kws]

(***************************************************************************)
(* The inputs of the checked runs.                                         *)
(***************************************************************************)
WORD_BRA == <<"b", "r", "a">>

WORD_DALIG == <<"d", "}", "l", "i", "g">>

WORD_INTE == <<"i", "n", "t", "e">>

WORD_MYCKET == <<"m", "y", "c", "k", "e", "t">>

WORD_EXTREMT == <<"e", "x", "t", "r", "e", "m", "t">>

WORD_VART == <<"v", "{", "r", "t">>

PIECE_OK == <<"o", "k">>

PIECE_URL == <<"h", "t", "t", "p", ":", "/", "/", "x", ".", "s", "e">>

PIECE_EMAIL == <<"a", "@", "b">>

PIECE_UPPER == <<"B", "R", "A">>

PHRASE_POS ==
    <<"e", "x", "c", "e", "e", "d", "e", "d", " ", 
      "e", "x", "p", "e", "c", "t", "a", "t", "i", "o", "n", "s">>

PHRASE_NEG == <<"n", "o", "t", " ", "r", "e", "c", "o", "m", "m", "e", "n", "d">>

\* a positive word, a negative word, a negation, two intensifiers (1.5 and
\* 2.0), and a word of no list
ScanVocab ==
    {WORD_BRA, WORD_DALIG, WORD_INTE, WORD_MYCKET, WORD_EXTREMT, WORD_VART}

RECURSIVE Join(_)
Join(ts) ==
    IF ts = <<>> THEN <<>>
    ELSE IF Len(ts) = 1 THEN ts[1]
    ELSE ts[1] \o <<" ">> \o Join(Tail(ts))

RECURSIVE Concat(_)
Concat(ts) == IF ts = <<>> THEN <<>> ELSE Head(ts) \o Concat(Tail(ts))

SeqsUpTo(S, n) == UNION {[1..m -> S] : m \in 0..n}

\* up to MaxTokens words separated by single spaces
ScanTexts == {Join(ts) : ts \in SeqsUpTo(ScanVocab, MaxTokens)}

\* up to MaxPolar positive and negative words, with no modifier
PolarTexts == {Join(ts) : ts \in SeqsUpTo({WORD_BRA, WORD_DALIG}, MaxPolar)}

\* a two-letter word, separators, a URL, an e-mail address, an upper-case
\* word and a lone '@'
Pieces ==
    {PIECE_OK, <<" ">>, <<"\t">>, PIECE_URL, PIECE_EMAIL, PIECE_UPPER, <<"@">>}

\* up to MaxPieces pieces written one after the other
PieceTexts == {Concat(ts) : ts \in SeqsUpTo(Pieces, MaxPieces)}

\* lexicon entries of more than one word, alone and behind a modifier
PhraseEntries ==
    {PHRASE_POS, PHRASE_NEG}

PhraseTexts ==
    PhraseEntries
    \cup {Join(<<m, e>>) : m \in {WORD_INTE, WORD_MYCKET}, e \in PhraseEntries}

\* a positive word followed by up to MaxFiller words of no list
FillerTexts ==
    {Join(<<WORD_BRA>> \o [j \in 1..n |-> PIECE_OK]) : n \in 0..MaxFiller}

AnalyzeInputs ==
    {NoneValue, IntValue(0), IntValue(5)}
    \cup {StrValue(t) : t \in ScanTexts \cup PolarTexts \cup PieceTexts
                          \cup PhraseTexts \cup FillerTexts}

\* the elements of a batch: the empty string, None, a value that is no str,
\* and texts with and without keywords
BatchElements ==
    {StrValue(<<>>), NoneValue, IntValue(5), StrValue(Join(<<WORD_INTE, WORD_BRA>>)),
     StrValue(Join(<<WORD_MYCKET, PHRASE_POS, PHRASE_POS>>))}

Batches == SeqsUpTo(BatchElements, MaxBatch)

WORD_PRIS == <<"p", "r", "i", "s">>

WORD_SNABB == <<"s", "n", "a", "b", "b">>

WORD_FRAKT == <<"f", "r", "a", "k", "t">>

WORD_FEL == <<"f", "e", "l">>

PIECE_PUNCTUATED == <<"P", "r", "i", "s", "!">>

\* three words that qualify as keywords, a stop word of more than three
\* characters, a word of three characters that is no stop word, and a word
\* in upper case with punctuation
KeywordVocab ==
    {WORD_PRIS, WORD_SNABB, WORD_FRAKT, WORD_MYCKET, WORD_FEL,
     PIECE_PUNCTUATED}

\* up to MaxKeywordTokens words separated by single spaces
KeywordTexts == {Join(ts) : ts \in SeqsUpTo(KeywordVocab, MaxKeywordTokens)}

ExtractInputs ==
    {NoneValue, IntValue(5)} \cup {StrValue(t) : t \in KeywordTexts}

\* the values of max_keywords: negative, zero, below and above the number of
\* keywords of a text, and the default
MaxKeywordsInputs == {-1, 0, 1, 2, DefaultMaxKeywords}

(***************************************************************************)
(* State.                                                                  *)
(***************************************************************************)
VARIABLES
    op,              \* the operation called
    pc,              \* where the call is: entry, try, scan, loop, done, raised
    text,            \* the argument of analyze_sentiment
    texts,           \* the argument of batch_analyze
    trace,           \* the steps the call has executed so far
    clean_text,      \* locals of analyze_sentiment
    words,
    i,               \* the next index of the loop over words, from 1
    positive_score,
    negative_score,
    word_count,
    result,          \* what analyze_sentiment returned
    k,               \* the next index of the loop over texts, from 1
    results,         \* the list batch_analyze builds and returns
    max_keywords,    \* the second argument of extract_keywords
    keywords,        \* what extract_keywords returned
    calls,           \* the number of calls made on the analyzer so far
    seen             \* the earlier calls in order, each with what it returned

\* the web application (routes.py): the tables, the uploads directory, the
\* clients' session cookies and the upload requests in progress
VARIABLES
    users,           \* the users table: users[id] is the plan of user id
    flask_session,   \* flask_session[c] is session['user_id'] of client c, 0
                     \* when the key is absent
    uploads,         \* the review_uploads table, uploads[id] a ReviewUpload
    reports,         \* the reports table, reports[id] a Report
    files,           \* the requests whose saved file is in uploads/
    requests,        \* requests[r]: the upload request r, its locals and its
                     \* response
    response         \* the response to the last report or chart request

\* parse_text_reviews (utils.py): its argument and locals
VARIABLES
    parse_pc,        \* where the call is: loop, done
    text_input,      \* the argument
    lines,           \* text_input.strip().split('\n')
    line_num,        \* the index of the next line, from 1
    reviews          \* the list the call builds and returns

analyzer ==
    <<op, pc, text, texts, trace, clean_text, words, i, positive_score,
      negative_score, word_count, result, k, results, max_keywords,
      keywords, calls, seen, positive_words, negative_words, negation_words,
      intensifiers>>

web == <<users, flask_session, uploads, reports, files, requests, response>>

parser == <<parse_pc, text_input, lines, line_num, reviews>>

vars == <<analyzer, web, parser>>

session == <<calls, seen>>

\* no web request is made
WebIdle ==
    /\ users = <<>>
    /\ flask_session = <<>>
    /\ uploads = <<>>
    /\ reports = <<>>
    /\ files = {}
    /\ requests = <<>>
    /\ response = <<>>

\* parse_text_reviews is not called
ParserIdle ==
    /\ parse_pc = "idle"
    /\ text_input = <<>>
    /\ lines = <<>>
    /\ line_num = 1
    /\ reviews = <<>>

Locals ==
    /\ trace = {}
    /\ clean_text = <<>>
    /\ words = <<>>
    /\ i = 1
    /\ positive_score = 0
    /\ negative_score = 0
    /\ word_count = 0
    /\ result = NoResult
    /\ k = 1
    /\ results = <<>>
    /\ keywords = <<>>

\* the attributes after SwedishSentimentAnalyzer() has run _initialize_model
Constructed ==
    /\ positive_words = PositiveWordList
    /\ negative_words = NegativeWordList
    /\ negation_words = NegationWordList
    /\ intensifiers = IntensifierTable

Init ==
    /\ WebIdle
    /\ ParserIdle
    /\ Constructed
    /\ calls = 1
    /\ seen = <<>>
    /\ \/ /\ op = "analyze_sentiment"
          /\ pc = "entry"
          /\ text \in AnalyzeInputs
          /\ texts = <<>>
          /\ max_keywords = DefaultMaxKeywords
       \/ /\ op = "batch_analyze"
          /\ pc = "loop"
          /\ text = NoneValue
          /\ texts \in Batches
          /\ max_keywords = DefaultMaxKeywords
       \/ /\ op = "extract_keywords"
          /\ pc = "entry"
          /\ text \in ExtractInputs
          /\ texts = <<>>
          /\ max_keywords \in MaxKeywordsInputs
    /\ Locals

Totals ==
    [positive_score |-> positive_score, negative_score |-> negative_score,
     word_count |-> word_count]

(***************************************************************************)
(* analyze_sentiment, step by step.                                        *)
(***************************************************************************)
\* AnalyzeEntry without the test for an empty argument
AnalyzeEntryNoEmptyTest ==
    /\ op = "analyze_sentiment"
    /\ pc = "entry"
    /\ pc' = "try"
    /\ UNCHANGED <<op, text, texts, trace, clean_text, words, i,
                   positive_score, negative_score, word_count, result, k,
                   results>>
    /\ UNCHANGED <<max_keywords, keywords>>
    /\ UNCHANGED <<lexicon, session>>
    /\ UNCHANGED <<web, parser>>

\* `if not text: return {...}`
AnalyzeEntry ==
    /\ op = "analyze_sentiment"
    /\ pc = "entry"
    /\ IF ~Truthy(text)
       THEN /\ result' = EmptyInputResult
            /\ pc' = "done"
       ELSE /\ pc' = "try"
            /\ UNCHANGED result
    /\ UNCHANGED <<op, text, texts, trace, clean_text, words, i,
                   positive_score, negative_score, word_count, k, results>>
    /\ UNCHANGED <<max_keywords, keywords>>
    /\ UNCHANGED <<lexicon, session>>
    /\ UNCHANGED <<web, parser>>

\* AnalyzePreprocess without the assignment of 0 to the totals, as if they
\* were attributes set once by the constructor
AnalyzePreprocessKeepsTotals ==
    /\ op = "analyze_sentiment"
    /\ pc = "try"
    /\ IF PreprocessRaises(text)
       THEN /\ trace' = trace \cup {"except"}
            /\ pc' = ExceptHandler.pc
            /\ result' = ExceptHandler.result
            /\ UNCHANGED <<clean_text, words, i, positive_score,
                           negative_score, word_count>>
       ELSE LET clean == Lower(preprocess_text(text))
            IN /\ clean_text' = clean
               /\ IF Len(clean) < 3
                  THEN /\ trace' = trace \cup {"preprocess_text"}
                       /\ result' = TooShortResult
                       /\ pc' = "done"
                       /\ UNCHANGED <<words, i, positive_score,
                                      negative_score, word_count>>
                  ELSE /\ trace' = trace \cup {"preprocess_text", "split"}
                       /\ words' = Split(clean)
                       /\ UNCHANGED <<positive_score, negative_score,
                                      word_count>>
                       /\ i' = 1
                       /\ pc' = "scan"
                       /\ UNCHANGED result
    /\ UNCHANGED <<op, text, texts, k, results>>
    /\ UNCHANGED <<max_keywords, keywords>>
    /\ UNCHANGED <<lexicon, session>>
    /\ UNCHANGED <<web, parser>>

\* preprocess, the length test, the tokenizing and the assignment of 0 to the
\* totals; a fault goes to the except clause
AnalyzePreprocess ==
    /\ op = "analyze_sentiment"
    /\ pc = "try"
    /\ IF PreprocessRaises(text)
       THEN /\ trace' = trace \cup {"except"}
            /\ pc' = ExceptHandler.pc
            /\ result' = ExceptHandler.result
            /\ UNCHANGED <<clean_text, words, i, positive_score,
                           negative_score, word_count>>
       ELSE LET clean == Lower(preprocess_text(text))
            IN /\ clean_text' = clean
               /\ IF Len(clean) < 3
                  THEN /\ trace' = trace \cup {"preprocess_text"}
                       /\ result' = TooShortResult
                       /\ pc' = "done"
                       /\ UNCHANGED <<words, i, positive_score,
                                      negative_score, word_count>>
                  ELSE /\ trace' = trace \cup {"preprocess_text", "split"}
                       /\ words' = Split(clean)
                       /\ positive_score' = ZeroTotals.positive_score
                       /\ negative_score' = ZeroTotals.negative_score
                       /\ word_count' = ZeroTotals.word_count
                       /\ i' = 1
                       /\ pc' = "scan"
                       /\ UNCHANGED result
    /\ UNCHANGED <<op, text, texts, k, results>>
    /\ UNCHANGED <<max_keywords, keywords>>
    /\ UNCHANGED <<lexicon, session>>
    /\ UNCHANGED <<web, parser>>

\* AnalyzeScanStep reading the multiplier with intensifiers.pop(words[i-1])
AnalyzeScanStepPopsIntensifier ==
    /\ op = "analyze_sentiment"
    /\ pc = "scan"
    /\ i <= Len(words)
    /\ LET acc == ScanToken(words, i, Totals)
       IN /\ positive_score' = acc.positive_score
          /\ negative_score' = acc.negative_score
          /\ word_count' = acc.word_count
    /\ i' = i + 1
    /\ UNCHANGED <<op, pc, text, texts, trace, clean_text, words, result, k,
                   results>>
    /\ UNCHANGED <<max_keywords, keywords>>
    /\ intensifiers' =
          IF i > 1 /\ words[i - 1] \in DOMAIN intensifiers
          THEN [w \in DOMAIN intensifiers \ {words[i - 1]} |-> intensifiers[w]]
          ELSE intensifiers
    /\ UNCHANGED <<positive_words, negative_words, negation_words, session>>
    /\ UNCHANGED <<web, parser>>

\* one iteration of the loop over words
AnalyzeScanStep ==
    /\ op = "analyze_sentiment"
    /\ pc = "scan"
    /\ i <= Len(words)
    /\ LET acc == ScanToken(words, i, Totals)
       IN /\ positive_score' = acc.positive_score
          /\ negative_score' = acc.negative_score
          /\ word_count' = acc.word_count
    /\ i' = i + 1
    /\ UNCHANGED <<op, pc, text, texts, trace, clean_text, words, result, k,
                   results>>
    /\ UNCHANGED <<max_keywords, keywords>>
    /\ UNCHANGED <<lexicon, session>>
    /\ UNCHANGED <<web, parser>>

\* the statements after the loop
AnalyzeReturn ==
    /\ op = "analyze_sentiment"
    /\ pc = "scan"
    /\ i > Len(words)
    /\ result' = FinalSentiment(words, Totals)
    /\ pc' = "done"
    /\ UNCHANGED <<op, text, texts, trace, clean_text, words, i,
                   positive_score, negative_score, word_count, k, results>>
    /\ UNCHANGED <<max_keywords, keywords>>
    /\ UNCHANGED <<lexicon, session>>
    /\ UNCHANGED <<web, parser>>

(***************************************************************************)
(* batch_analyze, one text per step.                                       *)
(***************************************************************************)
\* BatchStep skipping an element that is empty or None
BatchStepSkipsEmpty ==
    /\ op = "batch_analyze"
    /\ pc = "loop"
    /\ k <= Len(texts)
    /\ IF ExtractRaises(texts[k])
       THEN /\ pc' = "raised"
            /\ UNCHANGED <<results, k>>
       ELSE /\ results' =
                IF ~Truthy(texts[k]) THEN results
                ELSE Append(results,
                            WithKeywords(AnalyzeSentiment(texts[k]),
                                         extract_keywords(texts[k],
                                                          DefaultMaxKeywords)))
            /\ k' = k + 1
            /\ UNCHANGED pc
    /\ UNCHANGED <<op, text, texts, trace, clean_text, words, i,
                   positive_score, negative_score, word_count, result>>
    /\ UNCHANGED <<max_keywords, keywords>>
    /\ UNCHANGED <<lexicon, session>>
    /\ UNCHANGED <<web, parser>>

\* one iteration of `for text in texts`; an exception of extract_keywords
\* leaves batch_analyze
BatchStep ==
    /\ op = "batch_analyze"
    /\ pc = "loop"
    /\ k <= Len(texts)
    /\ IF ExtractRaises(texts[k])
       THEN /\ pc' = "raised"
            /\ UNCHANGED <<results, k>>
       ELSE /\ results' =
                Append(results,
                       WithKeywords(AnalyzeSentiment(texts[k]),
                                    extract_keywords(texts[k],
                                                     DefaultMaxKeywords)))
            /\ k' = k + 1
            /\ UNCHANGED pc
    /\ UNCHANGED <<op, text, texts, trace, clean_text, words, i,
                   positive_score, negative_score, word_count, result>>
    /\ UNCHANGED <<max_keywords, keywords>>
    /\ UNCHANGED <<lexicon, session>>
    /\ UNCHANGED <<web, parser>>

\* `return results`
BatchReturn ==
    /\ op = "batch_analyze"
    /\ pc = "loop"
    /\ k > Len(texts)
    /\ pc' = "done"
    /\ UNCHANGED <<op, text, texts, trace, clean_text, words, i,
                   positive_score, negative_score, word_count, result, k,
                   results>>
    /\ UNCHANGED <<max_keywords, keywords>>
    /\ UNCHANGED <<lexicon, session>>
    /\ UNCHANGED <<web, parser>>

(***************************************************************************)
(* extract_keywords, called on its own.                                    *)
(***************************************************************************)
\* the whole of extract_keywords; an exception of text.lower() leaves it
ExtractKeywordsCall ==
    /\ op = "extract_keywords"
    /\ pc = "entry"
    /\ IF ExtractRaises(text)
       THEN /\ pc' = "raised"
            /\ UNCHANGED keywords
       ELSE /\ keywords' = extract_keywords(text, max_keywords)
            /\ pc' = "done"
    /\ UNCHANGED <<op, text, texts, trace, clean_text, words, i,
                   positive_score, negative_score, word_count, result, k,
                   results, max_keywords>>
    /\ UNCHANGED <<lexicon, session>>
    /\ UNCHANGED <<web, parser>>

(***************************************************************************)
(* The next call on the same analyzer.                                     *)
(***************************************************************************)
Call(o, t, ts, m) == [op |-> o, text |-> t, texts |-> ts, max_keywords |-> m]

\* the calls of a run of several calls: texts scored negative, neutral at a
\* threshold and by the except clause, a keyword extraction, and batches
\* that return and that raise
SessionCalls ==
    {Call("analyze_sentiment", StrValue(Join(<<WORD_INTE, WORD_BRA>>)), <<>>,
          DefaultMaxKeywords),
     Call("analyze_sentiment",
          StrValue(Join(<<WORD_DALIG, WORD_MYCKET, WORD_BRA>>)), <<>>,
          DefaultMaxKeywords),
     Call("analyze_sentiment", IntValue(5), <<>>, DefaultMaxKeywords),
     Call("extract_keywords",
          StrValue(Join(<<WORD_PRIS, WORD_SNABB, WORD_SNABB>>)), <<>>,
          DefaultMaxKeywords),
     Call("batch_analyze", NoneValue,
          <<StrValue(Join(<<WORD_MYCKET, WORD_BRA>>)), StrValue(<<>>)>>,
          DefaultMaxKeywords),
     Call("batch_analyze", NoneValue, <<IntValue(5)>>, DefaultMaxKeywords)}

CurrentCall == Call(op, text, texts, max_keywords)

\* the caller, after a call has returned or raised, makes the next call; the
\* frame of the finished call is gone, the analyzer is the same
NewCall ==
    /\ pc \in {"done", "raised"}
    /\ calls < MaxCalls
    /\ CurrentCall \in SessionCalls
    /\ \E c \in SessionCalls :
          /\ op' = c.op
          /\ text' = c.text
          /\ texts' = c.texts
          /\ max_keywords' = c.max_keywords
          /\ pc' = IF c.op = "batch_analyze" THEN "loop" ELSE "entry"
    /\ calls' = calls + 1
    /\ seen' = Append(seen, [op |-> op, text |-> text, pc |-> pc,
                             result |-> result])
    /\ trace' = {}
    /\ result' = NoResult
    /\ k' = 1
    /\ results' = <<>>
    /\ keywords' = <<>>
    /\ UNCHANGED <<clean_text, words, i, positive_score, negative_score,
                   word_count>>
    /\ UNCHANGED lexicon
    /\ UNCHANGED <<web, parser>>

Next ==
    \/ AnalyzeEntry
    \/ AnalyzePreprocess
    \/ AnalyzeScanStep
    \/ AnalyzeReturn
    \/ BatchStep
    \/ BatchReturn
    \/ ExtractKeywordsCall
    \/ NewCall

Spec == Init /\ [][Next]_vars

(***************************************************************************)
(* Properties.                                                             *)
(***************************************************************************)
\* analyze_sentiment has returned
Returned == op = "analyze_sentiment" /\ pc = "done"

\* analyze_sentiment has returned from the statements after the scan
Scanned == Returned /\ "split" \in trace /\ "except" \notin trace

Zero == Rat(0, 1)

One == Rat(1, 1)

\* the number of tokens of ws that are in the set S
CountIn(ws, S) == Cardinality({j \in 1..Len(ws) : ws[j] \in S})

\* C1: on every return path of analyze_sentiment the score is in [0,1] and
\* the confidence is in [0,1].
C1_ScoreAndConfidenceInUnitInterval ==
    Returned =>
        /\ RatLeq(Zero, result.score) /\ RatLeq(result.score, One)
        /\ RatLeq(Zero, result.confidence) /\ RatLeq(result.confidence, One)

\* a scored text with weight on both sides and tokens that did not match
C1_Witness ==
    /\ Scanned
    /\ positive_score > 0
    /\ negative_score > 0
    /\ word_count < Len(words)
    /\ RatLess(Zero, result.score) /\ RatLess(result.score, One)

\* C2: in every returned result the sentiment is positive exactly when
\* score > 0.6, negative exactly when score < 0.4, and neutral otherwise; a
\* score of exactly 0.6 or 0.4 is neutral.
C2_ThresholdsExclusive ==
    Returned =>
        /\ result.sentiment \in {"positive", "negative", "neutral"}
        /\ result.sentiment = "positive"
              <=> 10 * result.score.num > 6 * result.score.den
        /\ result.sentiment = "negative"
              <=> 10 * result.score.num < 4 * result.score.den
        /\ result.sentiment = "neutral"
              <=> /\ 10 * result.score.num <= 6 * result.score.den
                  /\ 10 * result.score.num >= 4 * result.score.den

\* three positive words against two negative words: score exactly 0.6
C2_Witness ==
    /\ Scanned
    /\ CountIn(words, positive_words) = 3
    /\ CountIn(words, negative_words) = 2
    /\ Len(words) = 5
    /\ result.score = [num |-> 3, den |-> 5]
    /\ result.sentiment = "neutral"

\* the text is  a " " b  with a in the set A and b in the set B
IsPair(cs, A, B) ==
    \E j \in 2..(Len(cs) - 1) :
        /\ cs[j] = " "
        /\ Str(Take(cs, j - 1)) \in A
        /\ Str(Drop(cs, j)) \in B

\* C3: for every negation word n, positive word p and negative word q,
\* analyze_sentiment("n p") is negative, the weight of p going to the
\* negative total, and analyze_sentiment("n q") is positive.
C3_NegationFlipsEveryLexiconWord ==
    (Returned /\ text.kind = "str") =>
        /\ IsPair(text.chars, negation_words, positive_words) =>
              /\ result.sentiment = "negative"
              /\ result.scores.positive = 0
              /\ result.scores.negative > 0
        /\ IsPair(text.chars, negation_words, negative_words) =>
              result.sentiment = "positive"

\* the weight of the intensifier in front of the rest of the text
LeadingFactor(cs) ==
    LET j == CHOOSE j \in 2..(Len(cs) - 1) : cs[j] = " "
    IN intensifiers[Str(Take(cs, j - 1))]

\* the text behind the first space
AfterFirstSpace(cs) ==
    LET j == CHOOSE j \in 2..(Len(cs) - 1) : cs[j] = " "
    IN Drop(cs, j)

\* C4: for every intensifier w with multiplier f and every positive word p,
\* analyze_sentiment("w p") is positive, its positive raw weight is f times
\* that of analyze_sentiment("p"), and its negative raw weight is 0.
C4_IntensifierAmplifiesEveryPositiveWord ==
    (/\ Returned
     /\ text.kind = "str"
     /\ \E j \in 2..(Len(text.chars) - 1) :
           /\ text.chars[j] = " "
           /\ \A m \in 1..(j - 1) : text.chars[m] # " "
           /\ Str(Take(text.chars, j - 1)) \in DOMAIN intensifiers
           /\ Str(Drop(text.chars, j)) \in positive_words) =>
        /\ result.sentiment = "positive"
        /\ result.scores.positive * UnitWeight
              = LeadingFactor(text.chars)
                  * AnalyzeSentiment(
                        StrValue(AfterFirstSpace(text.chars))).scores.positive
        /\ result.scores.positive > 0
        /\ result.scores.negative = 0

\* C5: for every text with no negation word, no intensifier and at least one
\* sentiment word, the score is the number of positive-word tokens over the
\* number of positive-word and negative-word tokens.
C5_ScoreIsShareOfPositiveTokens ==
    (/\ Scanned
     /\ CountIn(words, negation_words \cup DOMAIN intensifiers) = 0
     /\ CountIn(words, positive_words \cup negative_words) >= 1) =>
        result.score
            = Rat(CountIn(words, positive_words),
                  CountIn(words, positive_words)
                      + CountIn(words, negative_words))

\* two positive tokens and one negative token: score 2/3, positive
C5_Witness ==
    /\ Scanned
    /\ CountIn(words, negation_words \cup DOMAIN intensifiers) = 0
    /\ CountIn(words, positive_words) = 2
    /\ CountIn(words, negative_words) = 1
    /\ result.score = [num |-> 2, den |-> 3]
    /\ result.sentiment = "positive"

\* the cleaned form: whitespace collapsed, URLs and e-mail-like tokens
\* stripped, trimmed, lower-cased
CleanedForm(cs) ==
    Lower(Strip(RemoveEmails(RemoveUrls(CollapseWhitespace(cs)))))

\* C6: for every (non-empty) input whose cleaned form is shorter than 3
\* characters analyze_sentiment returns neutral, score 0.5, confidence 0.1,
\* also for a 2-character word followed by a URL or an e-mail address.
C6_ShortCleanedFormIsTooShort ==
    (/\ Returned
     /\ text.kind = "str"
     /\ text.chars # <<>>
     /\ Len(CleanedForm(text.chars)) < 3) =>
        /\ result.sentiment = "neutral"
        /\ result.score = [num |-> 1, den |-> 2]
        /\ result.confidence = [num |-> 1, den |-> 10]

\* C7: for the empty string and for None analyze_sentiment returns neutral,
\* score 0.5, confidence 0.0 at once, with no preprocessing and no tokenizing.
C7_EmptyInputReturnsAtOnce ==
    (Returned /\ (text = NoneValue \/ text = StrValue(<<>>))) =>
        /\ result.sentiment = "neutral"
        /\ result.score = [num |-> 1, den |-> 2]
        /\ result.confidence = [num |-> 0, den |-> 1]
        /\ trace = {}

\* the call on the empty string has returned
C7_Witness == Returned /\ text = StrValue(<<>>) /\ result.sentiment = "neutral"

\* C8: for every text of cleaned length >= 3 with no token in the positive
\* or negative list the result is neutral, score 0.5, confidence 0.2, raw
\* totals 0, 0, 0, whatever negation words and intensifiers it contains.
C8_NoMatchIsNeutralLowConfidence ==
    (/\ Scanned
     /\ Len(clean_text) >= 3
     /\ CountIn(words, positive_words \cup negative_words) = 0) =>
        /\ result.sentiment = "neutral"
        /\ result.score = [num |-> 1, den |-> 2]
        /\ result.confidence = [num |-> 1, den |-> 5]
        /\ result.scores
              = [empty |-> FALSE, positive |-> 0, negative |-> 0,
                 word_count |-> 0]

\* a text of a negation word, an intensifier and a word of no list
C8_Witness ==
    /\ Scanned
    /\ CountIn(words, positive_words \cup negative_words) = 0
    /\ CountIn(words, negation_words) >= 1
    /\ CountIn(words, DOMAIN intensifiers) >= 1
    /\ result.confidence = [num |-> 1, den |-> 5]

\* C9: analyze_sentiment never raises: a fault after the empty-input test
\* ends in the result neutral, score 0.5, confidence 0.0.
C9_FaultIsAbsorbed ==
    op = "analyze_sentiment" =>
        /\ pc # "raised"
        /\ (pc = "done" /\ "except" \in trace) =>
              /\ result.sentiment = "neutral"
              /\ result.score = [num |-> 1, den |-> 2]
              /\ result.confidence = [num |-> 0, den |-> 1]

\* a call whose preprocessing faulted has returned
C9_Witness ==
    /\ Returned
    /\ PreprocessRaises(text)
    /\ "except" \in trace
    /\ result.sentiment = "neutral"

\* C10: batch_analyze never raises because of one element: it returns a
\* result for every element, also for one whose sentiment step or keyword
\* step faults.
C10_BatchNeverAborts ==
    op = "batch_analyze" =>
        /\ pc # "raised"
        /\ pc = "done" => Len(results) = Len(texts)

\* C11: batch_analyze returns one result per input text, the k-th for the
\* k-th text; the empty sequence gives the empty result; an empty-string
\* element gives neutral, confidence 0.0 and no keywords, and leaves the
\* results of the other elements as they are.
C11_BatchKeepsLengthAndOrder ==
    op = "batch_analyze" =>
        /\ (\A j \in 1..Len(texts) : texts[j].kind = "str") => pc # "raised"
        /\ pc = "done" => Len(results) = Len(texts)
        /\ \A j \in 1..Len(results) :
              /\ results[j]
                    = WithKeywords(AnalyzeSentiment(texts[j]),
                                   extract_keywords(texts[j],
                                                    DefaultMaxKeywords))
              /\ texts[j] = StrValue(<<>>) =>
                    /\ results[j].sentiment = "neutral"
                    /\ results[j].confidence = [num |-> 0, den |-> 1]
                    /\ results[j].keywords = <<>>

\* the empty string in front of a negative text
C11_Witness ==
    /\ op = "batch_analyze"
    /\ pc = "done"
    /\ texts = <<StrValue(<<>>), StrValue(Join(<<WORD_INTE, WORD_BRA>>))>>
    /\ Len(results) = 2
    /\ results[1].confidence = [num |-> 0, den |-> 1]
    /\ results[2].sentiment = "negative"

\* extract_keywords has returned
KeywordsReturned == op = "extract_keywords" /\ pc = "done"

\* the tokens of the text that qualify as keywords, in the order of the text
QualifyingTokens(cs) ==
    LET ts == SplitChars(PunctuationToSpace(Lower(cs)))
        keep == {j \in 1..Len(ts) :
                    Len(ts[j]) > 3 /\ Str(ts[j]) \notin stop_words}
        RECURSIVE Pick(_)
        Pick(j) ==
            IF j > Len(ts) THEN <<>>
            ELSE IF j \in keep THEN <<Str(ts[j])>> \o Pick(j + 1)
            ELSE Pick(j + 1)
    IN Pick(1)

\* the distinct qualifying tokens of the argument
Distinct(ws) == {ws[j] : j \in 1..Len(ws)}

\* C12: extract_keywords never returns a stop word or a token of length
\* <= 3, whatever the text and max_keywords; for the empty string and None
\* it returns the empty sequence and does not raise.
C12_KeywordsAreNeitherStopNorShort ==
    /\ op = "extract_keywords" =>
          /\ \A j \in 1..Len(keywords) :
                keywords[j] \notin stop_words /\ Len(keywords[j]) > 3
          /\ ~Truthy(text) => (pc # "raised" /\ keywords = <<>>)
    /\ op = "batch_analyze" =>
          \A j \in 1..Len(results) : \A m \in 1..Len(results[j].keywords) :
              /\ results[j].keywords[m] \notin stop_words
              /\ Len(results[j].keywords[m]) > 3

\* a stop word, a keyword and a word of three characters: one keyword
C12_Witness ==
    /\ KeywordsReturned
    /\ text = StrValue(Join(<<WORD_MYCKET, WORD_PRIS, WORD_FEL>>))
    /\ max_keywords = DefaultMaxKeywords
    /\ keywords = <<"pris">>

\* C13 as stated: for every text and every integer max_keywords the result
\* has at most max_keywords entries, and all distinct qualifying tokens when
\* there are fewer of them than max_keywords.
C13_AtMostMaxKeywords ==
    KeywordsReturned =>
        /\ Len(keywords) <= max_keywords
        /\ Cardinality(Distinct(QualifyingTokens(text.chars))) < max_keywords
              => Len(keywords)
                    = Cardinality(Distinct(QualifyingTokens(text.chars)))

\* C13, amended: for max_keywords >= 0 the result has at most max_keywords
\* entries, and all distinct qualifying tokens when there are fewer of them
\* than max_keywords; for max_keywords < 0 the slice keeps all but the last
\* -max_keywords of them.
C13_AtMostMaxKeywordsWhenNonNegative ==
    KeywordsReturned =>
        LET d == Cardinality(Distinct(QualifyingTokens(text.chars)))
        IN /\ max_keywords >= 0 =>
                 /\ Len(keywords) <= max_keywords
                 /\ d < max_keywords => Len(keywords) = d
           /\ max_keywords < 0 =>
                 Len(keywords) = IF d + max_keywords > 0
                                 THEN d + max_keywords ELSE 0

\* two distinct keywords cut to one
C13_Witness ==
    /\ KeywordsReturned
    /\ max_keywords = 1
    /\ Cardinality(Distinct(QualifyingTokens(text.chars))) >= 2
    /\ Len(keywords) = 1

\* the number of occurrences of w among the qualifying tokens ws
Occurrences(ws, w) == Cardinality({j \in 1..Len(ws) : ws[j] = w})

\* the place of the first occurrence of w in ws
FirstPlace(ws, w) ==
    CHOOSE j \in 1..Len(ws) :
        ws[j] = w /\ \A m \in 1..(j - 1) : ws[m] # w

\* C14: the result holds each qualifying token at most once, in descending
\* order of frequency, tokens of equal frequency in the order of their first
\* occurrence; no omitted qualifying token is more frequent than a returned
\* one.
C14_KeywordsSortedByFrequencyStable ==
    KeywordsReturned =>
        LET ws == QualifyingTokens(text.chars)
        IN /\ \A a \in 1..Len(keywords) : keywords[a] \in Distinct(ws)
           /\ \A a, b \in 1..Len(keywords) :
                 a < b =>
                    /\ keywords[a] # keywords[b]
                    /\ Occurrences(ws, keywords[a])
                          >= Occurrences(ws, keywords[b])
                    /\ Occurrences(ws, keywords[a])
                          = Occurrences(ws, keywords[b])
                       => FirstPlace(ws, keywords[a])
                             < FirstPlace(ws, keywords[b])
           /\ \A w \in Distinct(ws) :
                 (\A a \in 1..Len(keywords) : keywords[a] # w) =>
                    \A a \in 1..Len(keywords) :
                        Occurrences(ws, w) <= Occurrences(ws, keywords[a])

\* the more frequent keyword comes first although it occurs later
C14_Witness ==
    /\ KeywordsReturned
    /\ text = StrValue(Join(<<WORD_PRIS, WORD_SNABB, WORD_SNABB>>))
    /\ max_keywords = DefaultMaxKeywords
    /\ keywords = <<"snabb", "pris">>

(***************************************************************************)
(* Repeated calls on one analyzer.                                         *)
(***************************************************************************)
\* C15: analyze_sentiment is deterministic and independent of history: a call
\* that returns, on a text an earlier analyze_sentiment call of the same
\* analyzer was given, returns the same result as that call, whatever calls
\* of analyze_sentiment, extract_keywords or batch_analyze came in between,
\* and that result is the one a first call on a new analyzer gives.
C15_SameTextSameResult ==
    Returned =>
        /\ result = AnalyzeSentiment(text)
        /\ \A n \in 1..Len(seen) :
              (seen[n].op = "analyze_sentiment" /\ seen[n].text = text)
                  => (seen[n].pc = "done" /\ seen[n].result = result)

\* a text with a counted token is analyzed, a batch is analyzed, and the text
\* is analyzed again
C15_Witness ==
    /\ Returned
    /\ Scanned
    /\ word_count > 0
    /\ Len(seen) >= 2
    /\ seen[1].op = "analyze_sentiment"
    /\ seen[1].text = text
    /\ seen[1].result = result
    /\ seen[2].op = "batch_analyze"

\* C16: after construction no step of any operation changes positive_words,
\* negative_words, negation_words or intensifiers, whether the call succeeds,
\* absorbs a fault or raises.
C16_LexiconNeverChanges ==
    [][/\ positive_words' = positive_words
       /\ negative_words' = negative_words
       /\ negation_words' = negation_words
       /\ intensifiers' = intensifiers]_vars

\* after a call that absorbed a fault, a later call has scanned a text with an
\* intensifier before a counted token, and the lexicon is as constructed
C16_Witness ==
    /\ Scanned
    /\ word_count > 0
    /\ \E n \in 1..Len(words) : words[n] \in DOMAIN intensifiers
    /\ \E n \in 1..Len(seen) :
          /\ seen[n].op = "analyze_sentiment"
          /\ seen[n].result = ExceptHandler.result
          /\ Truthy(seen[n].text)
    /\ Constructed

\* C17: in every state no word is both in positive_words and in
\* negative_words, and every multiplier in intensifiers is greater than 1.0;
\* so a scan counts each token at most once.
C17_LexiconWellFormed ==
    /\ positive_words \cap negative_words = {}
    /\ \A w \in DOMAIN intensifiers : intensifiers[w] > UnitWeight
    /\ Scanned => word_count <= Len(words)

\* a scan has counted a positive and a negative token, one of them after an
\* intensifier
C17_Witness ==
    /\ Scanned
    /\ \E n \in 1..Len(words) : words[n] \in positive_words
    /\ \E n \in 1..Len(words) : words[n] \in negative_words
    /\ \E n \in 2..Len(words) :
          /\ words[n - 1] \in DOMAIN intensifiers
          /\ words[n] \in positive_words \cup negative_words
    /\ word_count >= 2

(***************************************************************************)
(* The two-token lookback of the scan.                                     *)
(***************************************************************************)
\* the iteration of the scan on words[i] is taken, and words[i] is a token
\* of the positive or the negative list
SentimentTokenStep ==
    /\ op = "analyze_sentiment"
    /\ pc = "scan"
    /\ i' = i + 1
    /\ words[i] \in positive_words \cup negative_words

\* the token n places before words[i] is in the set S
Before(n, S) == i > n /\ words[i - n] \in S

\* what the iteration adds to the positive and to the negative total
AddedPositive == positive_score' - positive_score

AddedNegative == negative_score' - negative_score

\* C18: the iteration on a sentiment token counts it on the opposite side if
\* and only if the token one or two places before it is a negation word; a
\* negation word further back or after the token changes nothing.
C18_NegatedIffNegationWithinTwo ==
    [][SentimentTokenStep =>
         LET flipped == IF words[i] \in positive_words
                        THEN AddedNegative > 0 /\ AddedPositive = 0
                        ELSE AddedPositive > 0 /\ AddedNegative = 0
             kept == IF words[i] \in positive_words
                     THEN AddedPositive > 0 /\ AddedNegative = 0
                     ELSE AddedNegative > 0 /\ AddedPositive = 0
         IN IF Before(1, negation_words) \/ Before(2, negation_words)
            THEN flipped
            ELSE kept]_vars

\* "n p p": both positive tokens are counted as negative
C18_Witness ==
    /\ Scanned
    /\ Len(words) = 3
    /\ words[1] \in negation_words
    /\ words[2] \in positive_words
    /\ words[3] \in positive_words
    /\ result.scores.negative = 2 * UnitWeight
    /\ result.scores.positive = 0
    /\ result.scores.word_count = 2

\* C19: the iteration on a sentiment token adds the multiplier of the
\* intensifier one place before it when there is one, else the multiplier of
\* the intensifier two places before it when there is one, else 1.0.
C19_NearestIntensifierOnly ==
    [][SentimentTokenStep =>
         AddedPositive + AddedNegative
           = IF Before(1, DOMAIN intensifiers) THEN intensifiers[words[i - 1]]
             ELSE IF Before(2, DOMAIN intensifiers)
                  THEN intensifiers[words[i - 2]]
                  ELSE UnitWeight]_vars

\* two intensifiers of different multipliers before a positive token: the
\* total is the multiplier of the nearer one
C19_Witness ==
    /\ Scanned
    /\ Len(words) = 3
    /\ words[1] \in DOMAIN intensifiers
    /\ words[2] \in DOMAIN intensifiers
    /\ intensifiers[words[1]] > intensifiers[words[2]]
    /\ words[3] \in positive_words
    /\ result.scores.positive = intensifiers[words[2]]
    /\ result.scores.negative = 0

\* a negation word and an intensifier before a positive token, in the order
\* given by at
NegationAndIntensifierBefore(at) ==
    /\ Scanned
    /\ Len(words) = 3
    /\ words[at] \in negation_words
    /\ words[3 - at] \in DOMAIN intensifiers
    /\ words[3] \in positive_words

\* C20: for a negation word n, an intensifier w of multiplier f and a
\* positive token p, "n w p" and "w n p" give the negative total f and the
\* positive total 0.
C20_NegatedAndIntensified ==
    \A at \in {1, 2} :
        NegationAndIntensifierBefore(at) =>
            /\ result.scores.negative = intensifiers[words[3 - at]]
            /\ result.scores.positive = 0
            /\ result.sentiment = "negative"

\* "w n p": the intensifier is two places before the token, the negation
\* word one place before it
C20_Witness ==
    /\ NegationAndIntensifierBefore(2)
    /\ result.scores.negative = intensifiers[words[1]]
    /\ result.scores.negative > UnitWeight

(***************************************************************************)
(* The totals of the scan and the confidence.                              *)
(***************************************************************************)
\* an iteration of the scan is taken, on words[i]
ScanStep ==
    /\ op = "analyze_sentiment"
    /\ pc = "scan"
    /\ i' = i + 1

\* the weight of the token at place j: the multiplier of the intensifier one
\* place before it, else of the one two places before it, else 1.0
WeightAt(ws, j) ==
    IF j > 1 /\ ws[j - 1] \in DOMAIN intensifiers THEN intensifiers[ws[j - 1]]
    ELSE IF j > 2 /\ ws[j - 2] \in DOMAIN intensifiers
         THEN intensifiers[ws[j - 2]]
         ELSE UnitWeight

\* the sum of the weights of the sentiment tokens among the first n tokens
RECURSIVE MatchedWeight(_, _)
MatchedWeight(ws, n) ==
    IF n = 0 THEN 0
    ELSE MatchedWeight(ws, n - 1)
         + (IF ws[n] \in positive_words \cup negative_words
            THEN WeightAt(ws, n)
            ELSE 0)

\* C21: an iteration of the scan on a token of the positive or the negative
\* list adds the token's weight to exactly one total and 1 to word_count; on
\* any other token it changes neither total nor word_count; after it
\* word_count is at most the number of tokens scanned and the two totals
\* together are the sum of the weights of the matched tokens scanned.
C21_ScanStepAddsToOneTotal ==
    [][ScanStep =>
         /\ IF words[i] \in positive_words \cup negative_words
            THEN /\ word_count' = word_count + 1
                 /\ \/ /\ AddedPositive = WeightAt(words, i)
                       /\ AddedNegative = 0
                    \/ /\ AddedNegative = WeightAt(words, i)
                       /\ AddedPositive = 0
            ELSE /\ word_count' = word_count
                 /\ AddedPositive = 0
                 /\ AddedNegative = 0
         /\ word_count' <= i
         /\ word_count' = CountIn(SubSeq(words, 1, i),
                                  positive_words \cup negative_words)
         /\ positive_score' + negative_score' = MatchedWeight(words, i)]_vars

\* in the middle of a scan: an intensified token has been counted, a token
\* of no list has been passed, and tokens remain
C21_Witness ==
    /\ op = "analyze_sentiment"
    /\ pc = "scan"
    /\ i <= Len(words)
    /\ word_count > 0
    /\ word_count < i - 1
    /\ positive_score + negative_score > word_count * UnitWeight

\* C22: when a sentiment token matched, the confidence is word_count over
\* the number of tokens of the cleaned text, word_count being the number of
\* tokens of the positive and negative lists; it is 1.0 only if every token
\* is one of them, and word_count never exceeds the number of tokens.
C22_ConfidenceIsMatchedShare ==
    (Scanned /\ word_count > 0) =>
        /\ word_count = CountIn(words, positive_words \cup negative_words)
        /\ word_count <= Len(words)
        /\ result.confidence.num * Len(words)
              = word_count * result.confidence.den
        /\ result.confidence = One
              => \A j \in 1..Len(words) :
                     words[j] \in positive_words \cup negative_words

\* a negation word, an intensifier and a word of no list in the denominator,
\* one matched token in the numerator
C22_Witness ==
    /\ Scanned
    /\ Len(words) = 4
    /\ word_count = 1
    /\ CountIn(words, negation_words) = 1
    /\ CountIn(words, DOMAIN intensifiers) = 1
    /\ result.confidence = [num |-> 1, den |-> 4]

\* after a scan that matched, the totals together are at least word_count,
\* so the branch for a total of 0 is not taken
GuardUnreachable ==
    (Scanned /\ word_count > 0) =>
        /\ positive_score + negative_score >= word_count * UnitWeight
        /\ result.score
              = Rat(positive_score, positive_score + negative_score)

\* the cleaned text of the returned call is shorter than 3 characters
ReturnedTooShort ==
    /\ Returned
    /\ "preprocess_text" \in trace
    /\ "split" \notin trace
    /\ Len(clean_text) < 3

\* C23 as stated: the branch for a total of 0 is unreachable, and the
\* confidence 0.1 is returned only for a cleaned text shorter than 3
\* characters.
C23_TenthOnlyWhenTooShort ==
    /\ GuardUnreachable
    /\ (Returned /\ result.confidence = [num |-> 1, den |-> 10])
          => ReturnedTooShort

\* C23, amended: the branch for a total of 0 is unreachable, and the
\* confidence 0.1 is returned only for a cleaned text shorter than 3
\* characters or for a scanned text of which exactly one token in ten
\* matched.
C23_TenthWhenTooShortOrOneInTen ==
    /\ GuardUnreachable
    /\ (Returned /\ result.confidence = [num |-> 1, den |-> 10])
          => \/ ReturnedTooShort
             \/ /\ Scanned
                /\ word_count > 0
                /\ 10 * word_count = Len(words)

\* one positive token among ten: confidence 0.1 for a long cleaned text
C23_Witness ==
    /\ Scanned
    /\ Len(words) = 10
    /\ word_count = 1
    /\ Len(clean_text) >= 3
    /\ result.confidence = [num |-> 1, den |-> 10]
    /\ result.sentiment = "positive"

(***************************************************************************)
(* The web application (src/Neilanx/routes.py, utils.py, models.py).       *)
(*                                                                         *)
(* Each upload request runs in its own thread with its own database        *)
(* session: what it adds is seen by the other requests once it commits.    *)
(* The statements of a request between two commits touch only its own      *)
(* locals and its own file, and are taken as one step.                     *)
(***************************************************************************)
\* the analyzer is constructed and no call on it is followed
AnalyzerIdle ==
    /\ op = "none"
    /\ pc = "idle"
    /\ text = NoneValue
    /\ texts = <<>>
    /\ max_keywords = DefaultMaxKeywords
    /\ Locals
    /\ Constructed
    /\ calls = 0
    /\ seen = <<>>

\* the browsers that send requests, each with its own session cookie
Clients == {"a", "b"}

\* `return (current_usage + new_reviews_count) <= 100`
FreeTierLimit == 100

\* the values of input_type
InputTypes == {"text", "image", "file"}

\* len(reviews_data): parse_image_reviews returns at most 50 reviews,
\* parse_text_reviews at most 100, parse_csv_reviews at most 1000
ParsedCounts(input_type) ==
    IF input_type = "image" THEN {40, 50} ELSE {40, 60}

\* what a form or a saved file turns out to hold: kind is invalid (the form
\* is rejected before anything is saved), too large, raises (the parser
\* raises) or parsed, with n reviews
Outcome(kind, n) == [kind |-> kind, n |-> n]

\* the flashed messages
FLASH_LOGIN == "login required"
FLASH_NO_REVIEWS == "no valid reviews"
FLASH_TOO_LARGE == "image too large"
FLASH_QUOTA == "quota exceeded"
FLASH_ERROR == "processing error"
FLASH_SUCCESS == "analyzed"
FLASH_NONE_PROCESSED == "nothing processed"

\* an upload request that has not been sent
NoRequest ==
    [pc |-> "idle", user_id |-> 0, input_type |-> "text", n |-> 0,
     processed_count |-> 0, upload_id |-> 0, saved |-> FALSE,
     flashes |-> {}, target |-> "none"]

NoResponse == [op |-> "none", by |-> 0, owner |-> 0]

\* one registered user, on the plan that register gives, logged in on every
\* client; no upload yet
WebInit ==
    /\ AnalyzerIdle
    /\ ParserIdle
    /\ users = <<"free">>
    /\ flask_session = [c \in Clients |-> 1]
    /\ uploads = <<>>
    /\ reports = <<>>
    /\ files = {}
    /\ requests = [r \in 1..MaxRequests |-> NoRequest]
    /\ response = NoResponse

\* calculate_monthly_usage: the reviews committed for the uploads of user_id
\* (all uploads are of the current month)
RECURSIVE StoredUpTo(_, _, _)
StoredUpTo(table, user_id, m) ==
    IF m = 0 THEN 0
    ELSE StoredUpTo(table, user_id, m - 1)
         + (IF table[m].user_id = user_id THEN table[m].stored ELSE 0)

calculate_monthly_usage(user_id) == StoredUpTo(uploads, user_id, Len(uploads))

check_freemium_limit(user_id, new_reviews_count) ==
    IF user_id \notin 1..Len(users) THEN FALSE
    ELSE IF users[user_id] # "free" THEN TRUE
    ELSE calculate_monthly_usage(user_id) + new_reviews_count <= FreeTierLimit

\* the request r ends: the messages flashed and where the response leads;
\* the locals reviews_data and processed_count are gone
Ends(r, rec, msgs, where) ==
    requests' = [requests EXCEPT ![r] =
                    [rec EXCEPT !.pc = "done",
                                !.n = 0,
                                !.processed_count = 0,
                                !.flashes = rec.flashes \cup msgs,
                                !.target = where]]

\* register: a new user on the default plan, logged in
Register(c) ==
    /\ Len(users) < MaxUsers
    /\ users' = Append(users, "free")
    /\ flask_session' = [flask_session EXCEPT ![c] = Len(users) + 1]
    /\ UNCHANGED <<uploads, reports, files, requests, response>>
    /\ UNCHANGED <<analyzer, parser>>

\* login with the e-mail address of user u
Login(c, u) ==
    /\ u \in 1..Len(users)
    /\ flask_session[c] # u
    /\ flask_session' = [flask_session EXCEPT ![c] = u]
    /\ UNCHANGED <<users, uploads, reports, files, requests, response>>
    /\ UNCHANGED <<analyzer, parser>>

Logout(c) ==
    /\ flask_session[c] # 0
    /\ flask_session' = [flask_session EXCEPT ![c] = 0]
    /\ UNCHANGED <<users, uploads, reports, files, requests, response>>
    /\ UNCHANGED <<analyzer, parser>>

\* what the form holds, for UploadBegin
FormOutcomes(input_type) ==
    IF input_type = "text"
    THEN {Outcome("parsed", 0)}
         \cup {Outcome("parsed", n) : n \in ParsedCounts(input_type)}
    ELSE {Outcome("saved", 0)}

\* what the saved file holds, for UploadParseFile
FileOutcomes(input_type) ==
    {Outcome("raises", 0)}
    \cup {Outcome("parsed", n) : n \in ParsedCounts(input_type)}
    \cup (IF input_type = "image" THEN {Outcome("too large", 0)} ELSE {})

\* `if not check_freemium_limit(...)`, reached by request r as rec with the
\* uploads directory as fs: flash, remove the file (image, file), redirect
\* to pricing.  os.remove raises FileNotFoundError when the file is not
\* there; the except clause of the image branch then flashes the processing
\* error and redirects to the upload page, that of the file branch flashes
\* and falls through to the page
CheckLimit(r, rec, fs) ==
    IF check_freemium_limit(rec.user_id, rec.n)
    THEN /\ requests' = [requests EXCEPT ![r] = [rec EXCEPT !.pc = "create"]]
         /\ files' = fs
    ELSE IF rec.input_type = "text"
    THEN /\ Ends(r, rec, {FLASH_QUOTA}, "pricing")
         /\ files' = fs
    ELSE IF r \in fs
    THEN /\ Ends(r, rec, {FLASH_QUOTA}, "pricing")
         /\ files' = fs \ {r}
    ELSE /\ Ends(r, rec, {FLASH_QUOTA, FLASH_ERROR},
                 IF rec.input_type = "image" THEN "upload" ELSE "page")
         /\ files' = fs

\* upload_reviews from its start.  text: parse_text_reviews and the limit
\* check.  image, file: the file is saved
UploadBegin(r, c, input_type, outcome) ==
    /\ requests[r].pc = "idle"
    /\ r > 1 => requests[r - 1].pc # "idle"
    /\ outcome \in FormOutcomes(input_type)
    /\ LET rec == [NoRequest EXCEPT !.user_id = flask_session[c],
                                    !.input_type = input_type,
                                    !.n = outcome.n]
       IN IF flask_session[c] = 0
          THEN /\ Ends(r, rec, {FLASH_LOGIN}, "login")
               /\ UNCHANGED files
          ELSE IF input_type = "text"
          THEN IF outcome.n = 0
               THEN /\ Ends(r, rec, {FLASH_NO_REVIEWS}, "upload")
                    /\ UNCHANGED files
               ELSE CheckLimit(r, rec, files)
          ELSE /\ files' = files \cup {r}
               /\ requests' = [requests EXCEPT ![r] =
                      [rec EXCEPT !.pc = "saved", !.saved = TRUE]]
    /\ UNCHANGED <<users, flask_session, uploads, reports, response>>
    /\ UNCHANGED <<analyzer, parser>>

\* UploadParseFile without the removal of the image after parse_image_reviews
UploadParseFileKeepsImage(r, outcome) ==
    /\ requests[r].pc = "saved"
    /\ outcome \in FileOutcomes(requests[r].input_type)
    /\ LET rec == [requests[r] EXCEPT !.n = outcome.n]
       IN IF rec.input_type = "image"
          THEN IF outcome.kind = "too large"
               THEN /\ files' = files \ {r}
                    /\ Ends(r, rec, {FLASH_TOO_LARGE}, "upload")
               ELSE IF outcome.kind = "raises"
               THEN /\ files' = files \ {r}
                    /\ Ends(r, rec, {FLASH_ERROR}, "upload")
               ELSE CheckLimit(r, rec, files)
          ELSE IF outcome.kind = "raises"
               THEN /\ UNCHANGED files
                    /\ Ends(r, rec, {FLASH_ERROR}, "page")
               ELSE CheckLimit(r, rec, files)
    /\ UNCHANGED <<users, flask_session, uploads, reports, response>>
    /\ UNCHANGED <<analyzer, parser>>

\* from the saved file to the limit check.  image: the size test, then
\* parse_image_reviews, then the removal of the image; a fault goes to the
\* except clause, which removes the image if it exists.  file:
\* parse_csv_reviews, which raises when it finds no valid review; the
\* except clause flashes and falls through to the page
UploadParseFile(r, outcome) ==
    /\ requests[r].pc = "saved"
    /\ outcome \in FileOutcomes(requests[r].input_type)
    /\ LET rec == [requests[r] EXCEPT !.n = outcome.n]
       IN IF rec.input_type = "image"
          THEN IF outcome.kind = "too large"
               THEN /\ files' = files \ {r}
                    /\ Ends(r, rec, {FLASH_TOO_LARGE}, "upload")
               ELSE IF outcome.kind = "raises"
               THEN /\ files' = files \ {r}
                    /\ Ends(r, rec, {FLASH_ERROR}, "upload")
               ELSE CheckLimit(r, rec, files \ {r})
          ELSE IF outcome.kind = "raises"
               THEN /\ UNCHANGED files
                    /\ Ends(r, rec, {FLASH_ERROR}, "page")
               ELSE CheckLimit(r, rec, files)
    /\ UNCHANGED <<users, flask_session, uploads, reports, response>>
    /\ UNCHANGED <<analyzer, parser>>

\* the ReviewUpload record is added with status 'processing' and committed;
\* then the loop over reviews_data: a review whose statements raise is
\* skipped, the others are added to the database session and counted
UploadCreate(r, failed) ==
    /\ requests[r].pc = "create"
    /\ failed \in {0, requests[r].n}
    /\ uploads' = Append(uploads,
                         [user_id |-> requests[r].user_id,
                          total_reviews |-> requests[r].n,
                          processed_reviews |-> 0,
                          status |-> "processing",
                          stored |-> 0])
    /\ requests' = [requests EXCEPT
                       ![r].pc = "finish",
                       ![r].upload_id = Len(uploads) + 1,
                       ![r].processed_count = requests[r].n - failed]
    /\ UNCHANGED <<users, flask_session, reports, files, response>>
    /\ UNCHANGED <<analyzer, parser>>

\* the statements after the loop: the status is set and committed with the
\* reviews, the CSV file is removed, the response is made.  When the commit
\* raises, the except clause of the branch runs
UploadFinish(r, committed) ==
    /\ requests[r].pc = "finish"
    /\ LET rec == requests[r]
           count == rec.processed_count
       IN IF committed
          THEN /\ uploads' = [uploads EXCEPT ![rec.upload_id] =
                      [@ EXCEPT !.processed_reviews = count,
                                !.status = IF count > 0 THEN "completed"
                                           ELSE "failed",
                                !.stored = count]]
               /\ files' = IF rec.input_type = "file" THEN files \ {r}
                           ELSE files
               /\ IF count > 0
                  THEN Ends(r, rec, {FLASH_SUCCESS}, "dashboard")
                  ELSE Ends(r, rec, {FLASH_NONE_PROCESSED}, "page")
          ELSE /\ UNCHANGED uploads
               /\ files' = IF rec.input_type = "image" THEN files \ {r}
                           ELSE files
               /\ Ends(r, rec, {FLASH_ERROR},
                       IF rec.input_type = "file" THEN "page" ELSE "upload")
    /\ UNCHANGED <<users, flask_session, reports, response>>
    /\ UNCHANGED <<analyzer, parser>>

\* `ReviewUpload.query.filter_by(id=upload_id, user_id=user_id).first()`
FindUpload(upload_id, user_id) ==
    IF upload_id \in 1..Len(uploads) /\ uploads[upload_id].user_id = user_id
    THEN upload_id
    ELSE 0

\* FindUpload filtering by id only
FindUploadOfAnyUser(upload_id, user_id) ==
    IF upload_id \in 1..Len(uploads) THEN upload_id ELSE 0

\* `Report.query.filter_by(id=report_id, user_id=user_id).first()`
FindReport(report_id, user_id) ==
    IF report_id \in 1..Len(reports) /\ reports[report_id].user_id = user_id
    THEN report_id
    ELSE 0

\* GenerateReport looking the upload up by id only
GenerateReportOfAnyUpload(c, upload_id) ==
    LET user_id == flask_session[c]
        upload == FindUploadOfAnyUser(upload_id, user_id)
    IN /\ IF user_id = 0 \/ upload = 0
          THEN /\ response' = [op |-> "generate_report", by |-> user_id,
                               owner |-> 0]
               /\ UNCHANGED reports
          ELSE /\ Len(reports) < MaxReports
               /\ reports' = Append(reports, [user_id |-> user_id,
                                              upload_id |-> upload_id])
               /\ response' = [op |-> "generate_report", by |-> user_id,
                               owner |-> uploads[upload].user_id]
       /\ UNCHANGED <<users, flask_session, uploads, files, requests>>
       /\ UNCHANGED <<analyzer, parser>>

\* generate_report: the report is made from the reviews of the upload found
GenerateReport(c, upload_id) ==
    LET user_id == flask_session[c]
        upload == FindUpload(upload_id, user_id)
    IN /\ IF user_id = 0 \/ upload = 0
          THEN /\ response' = [op |-> "generate_report", by |-> user_id,
                               owner |-> 0]
               /\ UNCHANGED reports
          ELSE /\ Len(reports) < MaxReports
               /\ reports' = Append(reports, [user_id |-> user_id,
                                              upload_id |-> upload_id])
               /\ response' = [op |-> "generate_report", by |-> user_id,
                               owner |-> uploads[upload].user_id]
       /\ UNCHANGED <<users, flask_session, uploads, files, requests>>
       /\ UNCHANGED <<analyzer, parser>>

\* download_report: the file of the report found is sent
DownloadReport(c, report_id) ==
    LET user_id == flask_session[c]
        report == FindReport(report_id, user_id)
    IN /\ response' =
             [op |-> "download_report", by |-> user_id,
              owner |-> IF user_id = 0 \/ report = 0 THEN 0
                        ELSE uploads[reports[report].upload_id].user_id]
       /\ UNCHANGED <<users, flask_session, uploads, reports, files,
                      requests>>
       /\ UNCHANGED <<analyzer, parser>>

\* api_sentiment_data: the sentiment counts of the upload found are sent
ApiSentimentData(c, upload_id) ==
    LET user_id == flask_session[c]
        upload == FindUpload(upload_id, user_id)
    IN /\ response' =
             [op |-> "api_sentiment_data", by |-> user_id,
              owner |-> IF user_id = 0 \/ upload = 0 THEN 0
                        ELSE uploads[upload].user_id]
       /\ UNCHANGED <<users, flask_session, uploads, reports, files,
                      requests>>
       /\ UNCHANGED <<analyzer, parser>>

\* the ids a request can name: those of the table and one that is not there
UploadIds == 1..(MaxRequests + 1)

ReportIds == 1..(MaxReports + 1)

\* the upload requests of the logged-in user, concurrently
WebNext ==
    \/ \E r \in 1..MaxRequests, c \in Clients, t \in InputTypes :
          \E o \in FormOutcomes(t) : UploadBegin(r, c, t, o)
    \/ \E r \in 1..MaxRequests, t \in InputTypes :
          \E o \in FileOutcomes(t) : UploadParseFile(r, o)
    \/ \E r \in 1..MaxRequests : \E failed \in 0..FreeTierLimit :
          UploadCreate(r, failed)
    \/ \E r \in 1..MaxRequests, committed \in BOOLEAN :
          UploadFinish(r, committed)

WebSpec == WebInit /\ [][WebNext]_vars

\* the requests of an upload of the text input type that is accepted,
\* processed and committed
TextUpload(r, c) ==
    \/ LET n == CHOOSE m \in ParsedCounts("text") :
                    \A other \in ParsedCounts("text") : m <= other
       IN UploadBegin(r, c, "text", Outcome("parsed", n))
    \/ UploadCreate(r, 0)
    \/ UploadFinish(r, TRUE)

\* nobody is registered or logged in
AccessInit ==
    /\ AnalyzerIdle
    /\ ParserIdle
    /\ users = <<>>
    /\ flask_session = [c \in Clients |-> 0]
    /\ uploads = <<>>
    /\ reports = <<>>
    /\ files = {}
    /\ requests = [r \in 1..MaxRequests |-> NoRequest]
    /\ response = NoResponse

\* no request is being served
Quiet == \A r \in 1..MaxRequests : requests[r].pc \in {"idle", "done"}

\* register, login, logout, upload and report requests in any order, served
\* one after another
AccessNext ==
    \/ Quiet /\ \E c \in Clients : Register(c)
    \/ Quiet /\ \E c \in Clients, u \in 1..MaxUsers : Login(c, u)
    \/ Quiet /\ \E c \in Clients : Logout(c)
    \/ \E r \in 1..MaxRequests, c \in Clients :
          (requests[r].pc = "idle" => Quiet) /\ TextUpload(r, c)
    \/ Quiet /\ \E c \in Clients, id \in UploadIds : GenerateReport(c, id)
    \/ Quiet /\ \E c \in Clients, id \in ReportIds : DownloadReport(c, id)
    \/ Quiet /\ \E c \in Clients, id \in UploadIds : ApiSentimentData(c, id)

AccessSpec == AccessInit /\ [][AccessNext]_vars

\* the request r has ended
Done(r) == requests[r].pc = "done"

\* C24: under WebSpec, the reviews stored in the month for a user on the free
\* plan never exceed the limit of 100, in every interleaving of the upload
\* requests of that user
C24_FreeUsageWithinLimit ==
    \A u \in 1..Len(users) :
        users[u] = "free" => calculate_monthly_usage(u) <= FreeTierLimit

\* C25: under WebSpec, when a request that created an upload record has
\* ended, the record is 'completed' if at least one review was processed and
\* 'failed' otherwise, and processed_reviews <= total_reviews
C25_ProcessingLeftWhenRequestEnds ==
    \A r \in 1..MaxRequests :
        Done(r) /\ requests[r].upload_id # 0 =>
            LET upload == uploads[requests[r].upload_id]
            IN /\ upload.status = (IF upload.processed_reviews > 0
                                   THEN "completed" ELSE "failed")
               /\ upload.processed_reviews <= upload.total_reviews

\* C26: under WebSpec, when a request of the image input type that saved its
\* image has ended, the image is not in the uploads directory
C26_ImageGoneWhenRequestEnds ==
    \A r \in 1..MaxRequests :
        Done(r) /\ requests[r].input_type = "image" /\ requests[r].saved =>
            r \notin files

\* an image request has ended with its reviews analysed and its image gone
C26_Witness ==
    \E r \in 1..MaxRequests :
        /\ Done(r) /\ requests[r].input_type = "image" /\ requests[r].saved
        /\ FLASH_SUCCESS \in requests[r].flashes
        /\ r \notin files

\* C27: under WebSpec, a request that flashed the quota message flashed
\* nothing else, redirects to the pricing page and created no upload record
C27_QuotaRejectionGoesToPricing ==
    \A r \in 1..MaxRequests :
        Done(r) /\ FLASH_QUOTA \in requests[r].flashes =>
            /\ requests[r].flashes = {FLASH_QUOTA}
            /\ requests[r].target = "pricing"
            /\ requests[r].upload_id = 0

\* C28: under WebSpec, when a request of the file input type that saved its
\* CSV file has ended, the file is not in the uploads directory
C28_CsvGoneWhenRequestEnds ==
    \A r \in 1..MaxRequests :
        Done(r) /\ requests[r].input_type = "file" /\ requests[r].saved =>
            r \notin files

Run(c, n) == [ch |-> c, count |-> n]

\* len(s)
RECURSIVE RunsLen(_)
RunsLen(rs) ==
    IF rs = <<>> THEN 0 ELSE Head(rs).count + RunsLen(Tail(rs))

RECURSIVE RunsLStrip(_)
RunsLStrip(rs) ==
    IF rs = <<>> THEN <<>>
    ELSE IF IsSpace(Head(rs).ch) THEN RunsLStrip(Tail(rs))
    ELSE rs

RECURSIVE RunsRStrip(_)
RunsRStrip(rs) ==
    IF rs = <<>> THEN <<>>
    ELSE IF IsSpace(rs[Len(rs)].ch)
    THEN RunsRStrip(SubSeq(rs, 1, Len(rs) - 1))
    ELSE rs

\* s.strip()
RunsStrip(rs) == RunsRStrip(RunsLStrip(rs))

\* s.split('\n'): the lines of one run, and those of two halves joined (the
\* last line of the first half goes on in the first line of the second)
RECURSIVE RunsSplitLines(_)
RunsSplitLines(rs) ==
    IF rs = <<>> THEN <<(<<>>)>>
    ELSE IF Len(rs) = 1
    THEN IF Head(rs).ch = "\n"
         THEN [j \in 1..(Head(rs).count + 1) |-> <<>>]
         ELSE <<rs>>
    ELSE LET half == Len(rs) \div 2
             left == RunsSplitLines(SubSeq(rs, 1, half))
             right == RunsSplitLines(SubSeq(rs, half + 1, Len(rs)))
         IN SubSeq(left, 1, Len(left) - 1)
            \o <<left[Len(left)] \o Head(right)>>
            \o Tail(right)

\* s[:n]
RECURSIVE RunsTake(_, _)
RunsTake(rs, n) ==
    IF rs = <<>> \/ n <= 0 THEN <<>>
    ELSE IF Head(rs).count >= n THEN <<Run(Head(rs).ch, n)>>
    ELSE <<Head(rs)>> \o RunsTake(Tail(rs), n - Head(rs).count)

\* the characters of s, one by one
RECURSIVE RunsChars(_)
RunsChars(rs) ==
    IF rs = <<>> THEN <<>>
    ELSE [j \in 1..Head(rs).count |-> Head(rs).ch] \o RunsChars(Tail(rs))

MinReviewLength == 3
MaxTextReviews == 100
MaxReviewLength == 5000

HeaderPrefixes ==
    {<<"r", "e", "v", "i", "e", "w">>, <<"t", "e", "x", "t">>,
     <<"c", "o", "m", "m", "e", "n", "t">>,
     <<"f", "e", "e", "d", "b", "a", "c", "k">>}

\* line.lower().startswith(('review', 'text', 'comment', 'feedback'))
LooksLikeHeader(line) ==
    \E p \in HeaderPrefixes :
        StartsWith(Lower(RunsChars(RunsTake(line, Len(p)))), p)

\* Truncated cutting one character too late
TruncatedOffByOne(line) ==
    IF RunsLen(line) > MaxReviewLength
    THEN RunsTake(line, MaxReviewLength + 1)
    ELSE line

\* `if len(line) > 5000: line = line[:5000]`
Truncated(line) ==
    IF RunsLen(line) > MaxReviewLength
    THEN RunsTake(line, MaxReviewLength)
    ELSE line

\* the lines a pasted text is made of
LINE_BLANK == <<>>
LINE_SPACES == <<Run(" ", 2)>>
LINE_SHORT == <<Run("a", 2)>>
LINE_PADDED_SHORT == <<Run(" ", 1), Run("a", 2), Run("\t", 2)>>
LINE_MINIMAL == <<Run("a", 3)>>
LINE_PADDED == <<Run(" ", 2), Run("b", 1), Run(" ", 1), Run("c", 2),
                 Run(" ", 1)>>
LINE_HEADER ==
    <<Run("R", 1), Run("e", 1), Run("v", 1), Run("i", 1), Run("e", 1),
      Run("w", 1), Run(" ", 1), Run("t", 1), Run("e", 1), Run("x", 1),
      Run("t", 1)>>
LINE_FULL == <<Run("d", MaxReviewLength)>>
LINE_LONG == <<Run("e", MaxReviewLength), Run("f", 1)>>

LineKinds ==
    {LINE_BLANK, LINE_SPACES, LINE_SHORT, LINE_PADDED_SHORT, LINE_MINIMAL,
     LINE_PADDED, LINE_HEADER, LINE_FULL, LINE_LONG}

\* '\n'.join(ls)
RECURSIVE JoinLines(_)
JoinLines(ls) ==
    IF ls = <<>> THEN <<>>
    ELSE IF Len(ls) = 1 THEN Head(ls)
    ELSE Head(ls) \o <<Run("\n", 1)>> \o JoinLines(Tail(ls))

\* n times a newline and a line of three characters
ManyReviews(n) ==
    [j \in 1..(2 * n) |-> IF j % 2 = 1 THEN Run("\n", 1) ELSE Run("a", 3)]

\* pasted texts of a few lines of every kind, and texts of about a hundred
\* reviews after a first line
PastedTexts ==
    {JoinLines(ls) : ls \in SeqsUpTo(LineKinds, MaxPasted)}
    \cup {first \o ManyReviews(n) :
            first \in {LINE_BLANK, LINE_SHORT, LINE_LONG},
            n \in (MaxLines - 2)..MaxLines}

\* parse_text_reviews is called with a pasted text
ParseInit ==
    /\ AnalyzerIdle
    /\ WebIdle
    /\ parse_pc = "start"
    /\ text_input \in PastedTexts
    /\ lines = <<>>
    /\ line_num = 1
    /\ reviews = <<>>

\* `if not text_input or not text_input.strip(): return reviews`, then
\* `lines = text_input.strip().split('\n')`
ParseEntry ==
    /\ parse_pc = "start"
    /\ IF text_input = <<>> \/ RunsStrip(text_input) = <<>>
       THEN /\ parse_pc' = "done"
            /\ UNCHANGED lines
       ELSE /\ parse_pc' = "loop"
            /\ lines' = RunsSplitLines(RunsStrip(text_input))
    /\ UNCHANGED <<text_input, line_num, reviews>>
    /\ UNCHANGED <<analyzer, web>>

\* one turn of `for line_num, line in enumerate(lines, 1)`.  A review keeps
\* the number of its line (the code keeps it in its log only)
ParseLine ==
    /\ parse_pc = "loop"
    /\ line_num <= Len(lines)
    /\ LET line == RunsStrip(lines[line_num])
       IN IF \/ line = <<>>
             \/ RunsLen(line) < MinReviewLength
             \/ LooksLikeHeader(line)
          THEN /\ line_num' = line_num + 1
               /\ UNCHANGED <<parse_pc, reviews>>
          ELSE IF Len(reviews) >= MaxTextReviews
          THEN /\ parse_pc' = "done"
               /\ UNCHANGED <<line_num, reviews>>
          ELSE /\ reviews' = Append(reviews,
                                    [review_text |-> Truncated(line),
                                     line |-> line_num])
               /\ line_num' = line_num + 1
               /\ UNCHANGED parse_pc
    /\ UNCHANGED <<text_input, lines>>
    /\ UNCHANGED <<analyzer, web>>

\* the loop is over: `return reviews`
ParseReturn ==
    /\ parse_pc = "loop"
    /\ line_num > Len(lines)
    /\ parse_pc' = "done"
    /\ UNCHANGED <<text_input, lines, line_num, reviews>>
    /\ UNCHANGED <<analyzer, web>>

ParseNext == ParseEntry \/ ParseLine \/ ParseReturn

ParseSpec == ParseInit /\ [][ParseNext]_vars

\* C30: under ParseSpec, parse_text_reviews returns at most 100 reviews, in
\* the order of their lines, each the stripped line cut to 5000 characters
\* and of 3 to 5000 characters; an empty or whitespace-only text gives
\* the empty list
C30_ReturnedReviewsBounded ==
    parse_pc = "done" =>
        /\ Len(reviews) <= MaxTextReviews
        /\ \A j \in 1..Len(reviews) :
              /\ RunsLen(reviews[j].review_text) >= MinReviewLength
              /\ RunsLen(reviews[j].review_text) <= MaxReviewLength
              /\ reviews[j].line \in 1..Len(lines)
              /\ reviews[j].review_text =
                     RunsTake(RunsStrip(lines[reviews[j].line]),
                              MaxReviewLength)
              /\ j > 1 => reviews[j - 1].line < reviews[j].line
        /\ RunsStrip(text_input) = <<>> => reviews = <<>>

\* a text of more than 100 reviews, the first of more than 5000 characters,
\* was parsed: 100 reviews are returned, the first cut to 5000
C30_Witness ==
    /\ parse_pc = "done"
    /\ Len(lines) > MaxTextReviews
    /\ Len(reviews) = MaxTextReviews
    /\ RunsLen(lines[1]) > MaxReviewLength
    /\ RunsLen(reviews[1].review_text) = MaxReviewLength

====
